---- MODULE Spec2Model ----
(***************************************************************************)
(* The IPAM core of quark (quark/ipam.py over quark/db/api.py) as a state  *)
(* machine.  The store is the set of IPAddress rows and the Subnet table;  *)
(* every worker runs allocate_ip_address as a sequence of database         *)
(* transactions, one action per transaction, so that the transactions of   *)
(* concurrent workers interleave.  Addresses are scaled down: a v4 subnet  *)
(* of a few addresses, a v6 subnet of 8 host values, the IPv4-mapped       *)
(* offset 0xFFFF00000000 scaled to V4Mapped, MAGIC_INT scaled to bit 2.    *)
(***************************************************************************)
EXTENDS Integers, Sequences, FiniteSets, TLC

\* ------------------------------------------------------------------ bounds
\* number of concurrent workers calling into IPAM
NumWorkers == 2
\* total number of allocate_ip_address calls in one behaviour
MaxCalls == 2
\* the clock (timeutils.utcnow) runs from 0 to MaxTime
MaxTime == 1
\* CONF.QUARK.ip_address_retry_max (default 20), scaled down
ip_address_retry_max == 2
\* CONF.QUARK.mac_address_retry_max
mac_address_retry_max == 2
\* CONF.QUARK.v6_allocation_attempts (default 10), scaled down
v6_allocation_attempts == 2

Workers == 1 .. NumWorkers

\* ------------------------------------------------------- program constants
\* Python None / SQL NULL
NULL == -1
\* next_auto_assign_ip of a subnet that is marked full
FULL == -1
\* the offset of an IPv4-mapped IPv6 address (::ffff:a.b.c.d), scaled
V4Mapped == 16
\* MAGIC_INT, the universal/local bit of the interface identifier, scaled
MAGIC_INT == 4
\* number of states of the process-wide random generator, scaled
RngSize == 8

Strategies == {"ANY", "BOTH", "BOTH_REQUIRED"}

VARIABLES
    subnets,    \* quark_subnets: subnet id -> row
    ips,        \* quark_ip_addresses: set of rows
    now,        \* timeutils.utcnow()
    rng,        \* state of the process-wide generator of module random
    wk,         \* worker -> frame of its allocate_ip_address call
    calls,      \* number of allocate_ip_address calls started
    held,       \* addresses returned to a caller and not deallocated since
    ranges,     \* quark_mac_address_ranges: range id -> row
    macs,       \* quark_mac_addresses: set of rows
    mk,         \* worker -> frame of its allocate_mac_address call
    mcalls,     \* number of allocate_mac_address calls started
    mheld,      \* MAC addresses returned to a caller and not deallocated
    mac_exc,    \* what the last deallocate_mac_address call raised, and
                \* the arguments of that call
    ports,      \* port id -> ids of the rows on port["ip_addresses"]
    deleted,    \* row id -> ip_block.address.delete notifications published
    args,       \* the arguments of a call of a function on its own
    ret         \* what that call returned or raised

\* the state of MAC allocation
macvars == <<ranges, macs, mk, mcalls, mheld, mac_exc>>

\* the state of IP allocation
ipvars == <<subnets, ips, rng, wk, calls, held>>

\* the ports and the delete notifications
portvars == <<ports, deleted>>

\* a function call on its own
utilvars == <<args, ret>>

vars == <<subnets, ips, now, rng, wk, calls, held, ranges, macs, mk, mcalls,
          mheld, mac_exc, ports, deleted, args, ret>>

\* ------------------------------------------------------------ netaddr
\* netaddr.IPAddress is modelled as [version, value]
IPAddress(ver, val) == [version |-> ver, value |-> val]

\* IPAddress.ipv6(): a v4 address becomes its IPv4-mapped v6 address
ipv6(a) == IF a.version = 4 THEN IPAddress(6, a.value + V4Mapped) ELSE a

\* IPAddress.ipv4() converts a v6 address that is IPv4-compatible (below the
\* v4 range's size) or IPv4-mapped; for any other v6 address it raises
\* AddrConversionError
Convertible(a) == a.version = 4 \/ a.value < 2 * V4Mapped

\* IPAddress.ipv4() of a convertible address
ipv4(a) ==
    IF a.version = 4 THEN a
    ELSE IF a.value < V4Mapped THEN IPAddress(4, a.value)
    ELSE IPAddress(4, a.value - V4Mapped)

\* netaddr.IPAddress(int): a stored integer read back as an address
FromInt(x) == IPAddress(6, x)

\* `addr in netaddr.IPNetwork(subnet["cidr"])`
InCidr(a, s) ==
    /\ a.version = s.ip_version
    /\ a.value >= s.cidr_first
    /\ a.value < s.cidr_first + s.cidr_size

\* `addr in IPPolicy.get_ip_policy_cidrs(subnet)`
InPolicy(a, s) == a.version = s.ip_version /\ a.value \in s.policy

\* x XOR MAGIC_INT on the scaled integers
XorMagic(x) ==
    IF (x \div MAGIC_INT) % 2 = 0 THEN x + MAGIC_INT ELSE x - MAGIC_INT

\* ------------------------------------------------------------ the store
\* the request context: the tenant and whether it is elevated (admin)
Context(tenant, admin) == [tenant_id |-> tenant, is_admin |-> admin]

\* context.elevated()
elevated(ctx) == [ctx EXCEPT !.is_admin = TRUE]

\* A filter set as the callers of _model_query pass it.  A list filter is a
\* set, empty when the key is absent or None; a scalar filter is NULL when
\* absent.
NoFilter ==
    [deallocated |-> NULL, reuse_after |-> NULL, ip_address |-> {},
     version |-> {}, subnet_id |-> {}, transaction_id |-> NULL,
     tenant_id |-> {}]

\* _model_query dropping the reuse_after filter
ModelQueryNoReuseAfter(r, f, ctx) ==
    LET tenants == IF f.tenant_id = {} /\ ~ctx.is_admin
                   THEN {ctx.tenant_id} ELSE f.tenant_id
    IN  /\ f.deallocated # NULL => r.deallocated = f.deallocated
        /\ f.transaction_id # NULL => r.transaction_id = f.transaction_id
        /\ f.subnet_id # {} => r.subnet_id \in f.subnet_id
        /\ f.version # {} => r.version \in f.version
        /\ f.ip_address # {} =>
               r.address \in {ipv6(a).value : a \in f.ip_address}
        /\ tenants # {} => r.used_by_tenant_id \in tenants

\* _model_query that injects no tenant id
ModelQueryNoTenant(r, f, ctx) ==
    /\ f.deallocated # NULL => r.deallocated = f.deallocated
    /\ f.transaction_id # NULL => r.transaction_id = f.transaction_id
    /\ f.subnet_id # {} => r.subnet_id \in f.subnet_id
    /\ f.version # {} => r.version \in f.version
    /\ f.ip_address # {} =>
           r.address \in {ipv6(a).value : a \in f.ip_address}
    /\ f.reuse_after # NULL =>
           /\ r.deallocated_at # NULL
           /\ r.deallocated_at <= now - f.reuse_after
    /\ f.tenant_id # {} => r.used_by_tenant_id \in f.tenant_id

\* _model_query on models.IPAddress: whether row r passes the filters
_model_query(r, f, ctx) ==
    LET tenants == IF f.tenant_id = {} /\ ~ctx.is_admin
                   THEN {ctx.tenant_id} ELSE f.tenant_id
    IN  /\ f.deallocated # NULL => r.deallocated = f.deallocated
        /\ f.transaction_id # NULL => r.transaction_id = f.transaction_id
        /\ f.subnet_id # {} => r.subnet_id \in f.subnet_id
        /\ f.version # {} => r.version \in f.version
        /\ f.ip_address # {} =>
               r.address \in {ipv6(a).value : a \in f.ip_address}
        /\ f.reuse_after # NULL =>
               /\ r.deallocated_at # NULL
               /\ r.deallocated_at <= now - f.reuse_after
        /\ tenants # {} => r.used_by_tenant_id \in tenants

\* ip_address_find: the rows a query returns
ip_address_find(rows, f, ctx) == {r \in rows : _model_query(r, f, ctx)}

\* the table without its unique index
NoUniqueIndex(rows, subnet_id, address) == FALSE

\* the unique index (subnet_id, address) of quark_ip_addresses
Duplicate(rows, subnet_id, address) ==
    \E r \in rows : r.subnet_id = subnet_id /\ r.address = address

\* ip_address_create: the row an insert adds
ip_address_create(ctx, id, address, subnet_id, version) ==
    [id |-> id, subnet_id |-> subnet_id, address |-> ipv6(address).value,
     version |-> version, deallocated |-> 0, deallocated_at |-> NULL,
     allocated_at |-> now, transaction_id |-> NULL,
     used_by_tenant_id |-> ctx.tenant_id]

\* the update_kwargs of the reuse claim without used_by_tenant_id
ReallocateUpdateKeepsTenant(r, txn, tenant) ==
    [r EXCEPT !.transaction_id = txn, !.deallocated = 0,
              !.deallocated_at = NULL, !.allocated_at = now]

\* the update_kwargs of the reuse claim, applied to the claimed row
ReallocateUpdate(r, txn, tenant) ==
    [r EXCEPT !.transaction_id = txn, !.deallocated = 0,
              !.deallocated_at = NULL, !.used_by_tenant_id = tenant,
              !.allocated_at = now]

\* the statement without its LIMIT: every matching row is updated
UpdateUnlimited(matching, pick) == matching

\* quark_sa.update(query, values, update_args={"mysql_limit": 1}): the rows
\* that UPDATE ... WHERE filters LIMIT 1 updates.  `pick` is the row the
\* engine takes when several match.
update(matching, pick) == matching \cap {pick}

\* ip_address_reallocate: the claim and its result row_count == 1
ip_address_reallocate(rows, f, ctx, pick, txn, tenant) ==
    LET updated == update(ip_address_find(rows, f, ctx), pick)
    IN  [rows |-> (rows \ updated)
                    \cup {ReallocateUpdate(r, txn, tenant) : r \in updated},
         result |-> Cardinality(updated) = 1]

\* the claim of _allocate_from_v6_subnet leaving deallocated_at as it was
V6ClaimUpdateKeepsStamp(r, tenant) ==
    [r EXCEPT !.deallocated = 0, !.used_by_tenant_id = tenant,
              !.allocated_at = now]

\* ip_address_update of the v6 find-then-claim step
V6ClaimUpdate(r, tenant) ==
    [r EXCEPT !.deallocated = 0, !.deallocated_at = NULL,
              !.used_by_tenant_id = tenant, !.allocated_at = now]

\* a setter of IPAddress.deallocated that leaves deallocated_at alone
SetDeallocatedNoStamp(r) == [r EXCEPT !.deallocated = 1]

\* the setter of IPAddress.deallocated with a true value
SetDeallocated(r) == [r EXCEPT !.deallocated = 1, !.deallocated_at = now]

\* ip_address_reallocate_find without the check against the policy
ReallocateFindNoPolicy(rows, subs, txn) ==
    LET f == [NoFilter EXCEPT !.transaction_id = txn]
        found == ip_address_find(rows, f, Context(0, TRUE))
    IN  IF found = {} THEN [rows |-> rows, address |-> {}]
        ELSE LET address == CHOOSE r \in found : TRUE
                 subnet == subs[address.subnet_id]
                 addr == IF subnet.ip_version = 4
                         THEN ipv4(FromInt(address.address))
                         ELSE ipv6(FromInt(address.address))
             IN  IF subnet.do_not_use
                 THEN [rows |-> rows, address |-> {}]
                 ELSE IF ~InCidr(addr, subnet)
                 THEN [rows |-> rows \ {address}, address |-> {}]
                 ELSE [rows |-> rows, address |-> {address}]

\* ip_address_reallocate_find looking the row up without the transaction id
ReallocateFindAnyRow(rows, subs, txn) ==
    LET found == ip_address_find(rows, NoFilter, Context(0, TRUE))
    IN  IF found = {} THEN [rows |-> rows, address |-> {}]
        ELSE LET address == CHOOSE r \in found : TRUE
                 subnet == subs[address.subnet_id]
                 addr == IF subnet.ip_version = 4
                         THEN ipv4(FromInt(address.address))
                         ELSE ipv6(FromInt(address.address))
             IN  IF subnet.do_not_use
                 THEN [rows |-> rows, address |-> {}]
                 ELSE IF InPolicy(addr, subnet)
                 THEN [rows |-> rows \ {address}, address |-> {}]
                 ELSE IF ~InCidr(addr, subnet)
                 THEN [rows |-> rows \ {address}, address |-> {}]
                 ELSE [rows |-> rows, address |-> {address}]

\* ip_address_reallocate_find: the re-find by transaction id and its checks.
\* Returns the rows left in the store and the row handed back (a set with at
\* most one element).
ip_address_reallocate_find(rows, subs, txn) ==
    LET f == [NoFilter EXCEPT !.transaction_id = txn]
        found == ip_address_find(rows, f, Context(0, TRUE))
    IN  IF found = {} THEN [rows |-> rows, address |-> {}]
        ELSE LET address == CHOOSE r \in found : TRUE
                 subnet == subs[address.subnet_id]
                 addr == IF subnet.ip_version = 4
                         THEN ipv4(FromInt(address.address))
                         ELSE ipv6(FromInt(address.address))
             IN  IF subnet.do_not_use
                 THEN [rows |-> rows, address |-> {}]
                 ELSE IF InPolicy(addr, subnet)
                 THEN [rows |-> rows \ {address}, address |-> {}]
                 ELSE IF ~InCidr(addr, subnet)
                 THEN [rows |-> rows \ {address}, address |-> {}]
                 ELSE [rows |-> rows, address |-> {address}]

\* subnet_update_next_auto_assign_ip writing next_auto_assign_ip - 1
SubnetUpdateCursorBackwards(subs, id) ==
    IF subs[id].next_auto_assign_ip # FULL
    THEN [subnets |-> [subs EXCEPT ![id].next_auto_assign_ip = @ - 1],
          updated |-> 1]
    ELSE [subnets |-> subs, updated |-> 0]

\* subnet_update_next_auto_assign_ip: the new table and the rows matched
subnet_update_next_auto_assign_ip(subs, id) ==
    IF subs[id].next_auto_assign_ip # FULL
    THEN [subnets |-> [subs EXCEPT ![id].next_auto_assign_ip = @ + 1],
          updated |-> 1]
    ELSE [subnets |-> subs, updated |-> 0]

\* subnet_update_set_full: the new table and the rows matched
subnet_update_set_full(subs, id) ==
    IF subs[id].next_auto_assign_ip # FULL
    THEN [subnets |-> [subs EXCEPT ![id].next_auto_assign_ip = FULL],
          updated |-> 1]
    ELSE [subnets |-> subs, updated |-> 0]

\* count(IPAddress.address) of the outer join in
\* subnet_find_ordered_by_most_full
IpsInSubnet(rows, id) == Cardinality({r \in rows : r.subnet_id = id})

\* the ORDER BY of subnet_find_ordered_by_most_full: ip_version, then
\* (last_ip - first_ip) - count, ties by id
MoreFull(subs, rows, a, b) ==
    LET ra == (subs[a].last_ip - subs[a].first_ip) - IpsInSubnet(rows, a)
        rb == (subs[b].last_ip - subs[b].first_ip) - IpsInSubnet(rows, b)
    IN  \/ subs[a].ip_version < subs[b].ip_version
        \/ /\ subs[a].ip_version = subs[b].ip_version
           /\ \/ ra < rb
              \/ ra = rb /\ a < b

RECURSIVE SortMostFull(_, _, _)
SortMostFull(subs, rows, S) ==
    IF S = {} THEN <<>>
    ELSE LET first == CHOOSE a \in S :
                          \A b \in S \ {a} : MoreFull(subs, rows, a, b)
         IN  <<first>> \o SortMostFull(subs, rows, S \ {first})

\* subnet_find_ordered_by_most_full: the candidate ids in query order.
\* ip_version is 0 when the filter is absent.
subnet_find_ordered_by_most_full(subs, rows, ip_version, subnet_ids) ==
    SortMostFull(subs, rows,
        {id \in DOMAIN subs :
            /\ ~subs[id].do_not_use
            /\ ip_version # 0 => subs[id].ip_version = ip_version
            /\ subs[id].next_auto_assign_ip # FULL
            /\ subnet_ids # {} => id \in subnet_ids})

\* ------------------------------------------------------ subnet selection
\* The loop of select_subnet over the candidates, in one transaction under
\* the row locks of the FOR UPDATE query.  ip is the explicit address (a set,
\* empty when none), pinned whether subnet_ids was given.  The result is the
\* new subnet table, the subnet returned (a set with at most one refreshed
\* row) and the exception raised ("none" when none).
RECURSIVE select_subnet_loop(_, _, _, _, _)
SelectSubnetNoUpperBound(cands, subs, rows, ip, pinned) ==
    IF cands = <<>>
    THEN [subnets |-> subs, subnet |-> {}, raised |-> "none"]
    ELSE
      LET id == Head(cands)
          subnet == subs[id]
          requested == IF ip = {} THEN {}
                       ELSE {IF subnet.ip_version = 4 THEN ipv4(a) ELSE a
                             : a \in ip}
          policy_size == IF ip = {} THEN subnet.policy_size ELSE 0
          ips_in_subnet == IpsInSubnet(rows, id)
      IN  IF subnet.ip_version = 4 /\ \E a \in ip : ~Convertible(a)
          THEN [subnets |-> subs, subnet |-> {},
                raised |-> "AddrConversionError"]
          ELSE IF requested # {} /\ \E a \in requested : ~InCidr(a, subnet)
          THEN IF pinned
               THEN [subnets |-> subs, subnet |-> {},
                     raised |-> "IPAddressNotInSubnet"]
               ELSE select_subnet_loop(Tail(cands), subs, rows, ip, pinned)
          ELSE IF subnet.cidr_size > ips_in_subnet + policy_size - 1
          THEN IF ip = {} /\ subnet.ip_version = 4
               THEN LET cur == subnet.next_auto_assign_ip
                        upd == IF cur < subnet.first_ip
                               THEN subnet_update_set_full(subs, id)
                               ELSE subnet_update_next_auto_assign_ip(subs, id)
                    IN  IF upd.updated # 0
                        THEN [subnets |-> upd.subnets,
                              subnet |-> {upd.subnets[id]},
                              raised |-> "none"]
                        ELSE [subnets |-> upd.subnets, subnet |-> {},
                              raised |-> "none"]
               ELSE [subnets |-> subs, subnet |-> {subnet}, raised |-> "none"]
          ELSE select_subnet_loop(Tail(cands),
                                  subnet_update_set_full(subs, id).subnets,
                                  rows, ip, pinned)

select_subnet_loop(cands, subs, rows, ip, pinned) ==
    IF cands = <<>>
    THEN [subnets |-> subs, subnet |-> {}, raised |-> "none"]
    ELSE
      LET id == Head(cands)
          subnet == subs[id]
          requested == IF ip = {} THEN {}
                       ELSE {IF subnet.ip_version = 4 THEN ipv4(a) ELSE a
                             : a \in ip}
          policy_size == IF ip = {} THEN subnet.policy_size ELSE 0
          ips_in_subnet == IpsInSubnet(rows, id)
      IN  IF subnet.ip_version = 4 /\ \E a \in ip : ~Convertible(a)
          THEN [subnets |-> subs, subnet |-> {},
                raised |-> "AddrConversionError"]
          ELSE IF requested # {} /\ \E a \in requested : ~InCidr(a, subnet)
          THEN IF pinned
               THEN [subnets |-> subs, subnet |-> {},
                     raised |-> "IPAddressNotInSubnet"]
               ELSE select_subnet_loop(Tail(cands), subs, rows, ip, pinned)
          ELSE IF subnet.cidr_size > ips_in_subnet + policy_size - 1
          THEN IF ip = {} /\ subnet.ip_version = 4
               THEN LET cur == subnet.next_auto_assign_ip
                        upd == IF cur < subnet.first_ip \/ cur > subnet.last_ip
                               THEN subnet_update_set_full(subs, id)
                               ELSE subnet_update_next_auto_assign_ip(subs, id)
                    IN  IF upd.updated # 0
                        THEN [subnets |-> upd.subnets,
                              subnet |-> {upd.subnets[id]},
                              raised |-> "none"]
                        ELSE [subnets |-> upd.subnets, subnet |-> {},
                              raised |-> "none"]
               ELSE [subnets |-> subs, subnet |-> {subnet}, raised |-> "none"]
          ELSE select_subnet_loop(Tail(cands),
                                  subnet_update_set_full(subs, id).subnets,
                                  rows, ip, pinned)

\* select_subnet whose room test counts no row
SelectSubnetCountsNothing(subs, rows, ip, subnet_ids, ip_version) ==
    select_subnet_loop(
        subnet_find_ordered_by_most_full(subs, rows, ip_version, subnet_ids),
        subs, {}, ip, subnet_ids # {})

\* select_subnet(context, net_id, ip_address, segment_id, subnet_ids,
\* ip_version): ip_version is 0 and subnet_ids is {} when not given
select_subnet(subs, rows, ip, subnet_ids, ip_version) ==
    select_subnet_loop(
        subnet_find_ordered_by_most_full(subs, rows, ip_version, subnet_ids),
        subs, rows, ip, subnet_ids # {})

\* ------------------------------------------------------------ strategies
\* the versions of a list of addresses, in order
Versions(addresses) == [i \in 1 .. Len(addresses) |-> addresses[i].version]

\* list.remove(x) on a list known to hold x: the first x is removed
RECURSIVE Remove(_, _)
Remove(list, x) ==
    IF list = <<>> THEN <<>>
    ELSE IF Head(list) = x THEN Tail(list)
    ELSE <<Head(list)>> \o Remove(Tail(list), x)

InList(list, x) == \E i \in 1 .. Len(list) : list[i] = x

\* QuarkIpamBOTH.is_strategy_satisfied / _choose_available_subnet: req (or
\* need_versions) after the versions of the addresses were removed from it.
\* The result is <<"ValueError">> when req.remove raises.
RECURSIVE RemoveAll(_, _, _)
RemoveAll(req, versions, strict) ==
    IF versions = <<>> THEN req
    ELSE IF InList(req, Head(versions))
    THEN RemoveAll(Remove(req, Head(versions)), Tail(versions), strict)
    ELSE IF strict THEN <<"ValueError">>
    ELSE RemoveAll(req, Tail(versions), strict)

\* QuarkIpamBOTHREQ.is_strategy_satisfied: the loop returns True as soon as
\* req is empty
RECURSIVE BothReqSatisfied(_, _)
\* the loop of QuarkIpamBOTHREQ.is_strategy_satisfied returning True while
\* one version is still required
BothReqSatisfiedWithOneLeft(req, versions) ==
    IF versions = <<>> THEN FALSE
    ELSE LET left == Remove(req, Head(versions))
         IN  IF Len(left) <= 1 THEN TRUE
             ELSE BothReqSatisfied(left, Tail(versions))

BothReqSatisfied(req, versions) ==
    IF versions = <<>> THEN FALSE
    ELSE LET left == Remove(req, Head(versions))
         IN  IF left = <<>> THEN TRUE
             ELSE BothReqSatisfied(left, Tail(versions))

\* is_strategy_satisfied of the three strategies
is_strategy_satisfied(strategy, addresses, allocate_complete) ==
    IF strategy = "ANY" THEN addresses # <<>>
    ELSE IF strategy = "BOTH"
    THEN LET req == RemoveAll(<<4, 6>>, Versions(addresses), TRUE)
         IN  \/ Len(req) = 0
             \/ Len(req) = 1 /\ allocate_complete
    ELSE BothReqSatisfied(<<4, 6>>, Versions(addresses))

\* the ip_version filters of the select_subnet calls that
\* _choose_available_subnet makes, in order (0: no filter)
NeedVersions(strategy, reallocated_ips) ==
    IF strategy = "ANY" THEN <<0>>
    ELSE RemoveAll(<<4, 6>>, Versions(reallocated_ips), FALSE)

\* ------------------------------------------------------------ generators
\* netaddr.EUI(mac).eui64(): the marker ff:fe between the OUI and the NIC
\* part; a scaled MAC has one OUI bit and one NIC bit
eui64(mac) == (mac \div 2) * 4 + 2 + (mac % 2)

\* rfc2462_ip(mac, cidr)
rfc2462_ip(mac, cidr_first) == XorMagic(cidr_first + eui64(mac))

\* random.seed(int(uuid.UUID(port_id)))
Seed(port_id) == port_id % RngSize

\* the state of the generator after one random.getrandbits
NextRandom(state) == (5 * state + 3) % RngSize

\* one value of rfc3041_ip drawn in generator state `state` (after stepping)
rfc3041_ip(state, cidr_first) == XorMagic(cidr_first + state)

\* ------------------------------------------------------------ call frames
\* the inputs of the calls
\* the callers: tenant 1 plugs port 1, whose VIF has MAC 1; tenant 2 plugs
\* port 2 and passes no MAC
Clients == {[tenant |-> 1, port |-> 1, mac |-> 1],
            [tenant |-> 2, port |-> 2, mac |-> NULL]}
ReuseAfters == {0, 1}
ExplicitIps == {{}, {IPAddress(4, 8)}}

IdleFrame ==
    [pc |-> "idle", call |-> 0, strategy |-> "ANY", ip |-> {}, ra |-> 0,
     tenant |-> 0, port |-> 0, mac |-> NULL, new_addresses |-> <<>>,
     retry |-> 0, txn |-> NULL, need |-> <<>>, subs |-> <<>>, tries |-> 0,
     cand |-> NULL, outcome |-> "none", notified |-> <<>>, sub |-> {},
     seen |-> <<>>]

\* one Transaction row for a whole call
TxnIdPerCall(f) == f.call

\* the fresh id of the Transaction row that transaction_create adds
TxnId(f) == (f.call - 1) * ip_address_retry_max + f.retry + 1

\* the fresh id of an IPAddress row (_perhaps_generate_id)
RowId(f, version) == f.call * 2 + (IF version = 4 THEN 0 ELSE 1)

\* an address as the caller's list holds it
Ref(r) == [id |-> r.id, version |-> r.version, subnet_id |-> r.subnet_id,
           address |-> r.address]

\* the call returns normally
Return(f) == [f EXCEPT !.pc = "done", !.outcome = "ok", !.need = <<>>,
                       !.subs = <<>>, !.retry = 0, !.tries = 0,
                       !.txn = NULL, !.cand = NULL, !.ip = {}, !.ra = 0,
                       !.port = 0, !.mac = NULL, !.sub = {}]

\* the call raises
Raise(f, exc) == [f EXCEPT !.pc = "done", !.outcome = exc, !.need = <<>>,
                           !.subs = <<>>, !.retry = 0, !.tries = 0,
                           !.txn = NULL, !.cand = NULL, !.ip = {}, !.ra = 0,
                           !.port = 0, !.mac = NULL, !.sub = {}]

\* what a frame hands to its caller when it is done
Returned(f) ==
    IF f.pc = "done" /\ f.outcome = "ok"
    THEN {[call |-> f.call, id |-> f.new_addresses[i].id,
           subnet_id |-> f.new_addresses[i].subnet_id,
           address |-> f.new_addresses[i].address]
          : i \in 1 .. Len(f.new_addresses)}
    ELSE {}

\* _notify_new_addresses: one ip_block.address.create notification for each
\* address of the list; the frame records what the call has published
_notify_new_addresses(f) == [f EXCEPT !.notified = @ \o f.new_addresses]

\* allocate_ip_address after the create loops: the final strategy check,
\* the notifications and the return, or IpAddressGenerationFailure
FinishCreate(f) ==
    IF is_strategy_satisfied(f.strategy, f.new_addresses, TRUE)
    THEN Return(_notify_new_addresses(f))
    ELSE Raise(f, "IpAddressGenerationFailure")

\* _try_allocate_ip_address: the ip_version filters of the select_subnet
\* calls of one iteration (0: no filter).  With a subnet given it calls
\* select_subnet once, without a filter, and not _choose_available_subnet.
SelectFilters(f) ==
    IF f.sub # {} THEN <<0>> ELSE NeedVersions(f.strategy, f.new_addresses)

\* _try_allocate_ip_address: the next iteration of the retry loop, or the
\* end of the loop when the retries are used up
NextAttempt(f) ==
    IF f.retry + 1 < ip_address_retry_max
    THEN [f EXCEPT !.pc = "select", !.retry = f.retry + 1,
                   !.need = SelectFilters(f),
                   !.subs = <<>>, !.tries = 0, !.cand = NULL]
    ELSE FinishCreate(f)

\* allocate_ip_address after the reuse pass: return when the strategy is
\* satisfied, else enter the create path
AfterReuse(f) ==
    IF is_strategy_satisfied(f.strategy, f.new_addresses, FALSE)
    THEN Return(f)
    ELSE [f EXCEPT !.pc = "select", !.retry = 0, !.txn = NULL,
                   !.need = SelectFilters(f),
                   !.subs = <<>>, !.tries = 0]

\* the filters of the reuse claim (ip_kwargs)
ip_kwargs(f) ==
    [NoFilter EXCEPT
        !.reuse_after = f.ra,
        !.deallocated = IF f.ip = {} THEN 1 ELSE NULL,
        !.ip_address = f.ip,
        !.subnet_id = f.sub,
        !.version = IF f.strategy = "ANY" THEN {4, 6} ELSE {4}]

\* ------------------------------------------------------------ create path
\* the exceptions the retry loop of _try_allocate_ip_address catches:
\* IPAddressRetryableFailure and its subclass for a policy violation
Retryable(exc) ==
    exc \in {"IPAddressRetryableFailure", "IPAddressPolicyRetryableFailure"}

\* _allocate_from_subnet taking next_auto_assign_ip itself, not the value
\* before the increment, as the candidate
NextIpAtCursor(f, subnet) ==
    IF f.ip # {} THEN CHOOSE a \in f.ip : TRUE
    ELSE LET next_ip == IF subnet.next_auto_assign_ip # FULL
                        THEN FromInt(subnet.next_auto_assign_ip)
                        ELSE FromInt(subnet.last_ip)
         IN  IF subnet.ip_version = 4 THEN ipv4(next_ip) ELSE next_ip

\* _allocate_from_subnet: the candidate address of a subnet as select_subnet
\* returned it
NextIp(f, subnet) ==
    IF f.ip # {} THEN CHOOSE a \in f.ip : TRUE
    ELSE LET next_ip == IF subnet.next_auto_assign_ip # FULL
                        THEN FromInt(subnet.next_auto_assign_ip - 1)
                        ELSE FromInt(subnet.last_ip)
         IN  IF subnet.ip_version = 4 THEN ipv4(next_ip) ELSE next_ip

\* _allocate_from_subnet without the check against the policy
AllocateFromSubnetNoPolicy(f, subnet, rows) ==
    LET next_ip == NextIp(f, subnet)
        row == ip_address_create(Context(f.tenant, FALSE),
                                 RowId(f, subnet.ip_version), next_ip,
                                 subnet.id, subnet.ip_version)
    IN  IF Duplicate(rows, row.subnet_id, row.address)
        THEN [rows |-> rows, address |-> {},
              exc |-> IF f.ip # {} THEN "IpAddressInUse"
                      ELSE "IPAddressRetryableFailure"]
        ELSE [rows |-> rows \cup {row}, address |-> {row}, exc |-> "none"]

\* _allocate_from_subnet raising the retryable failure on every conflict,
\* with an explicit address too
AllocateFromSubnetAlwaysRetryable(f, subnet, rows) ==
    LET next_ip == NextIp(f, subnet)
        row == ip_address_create(Context(f.tenant, FALSE),
                                 RowId(f, subnet.ip_version), next_ip,
                                 subnet.id, subnet.ip_version)
    IN  IF subnet.policy # {} /\ InPolicy(next_ip, subnet) /\ f.ip = {}
        THEN [rows |-> rows, address |-> {},
              exc |-> "IPAddressPolicyRetryableFailure"]
        ELSE IF Duplicate(rows, row.subnet_id, row.address)
        THEN [rows |-> rows, address |-> {},
              exc |-> "IPAddressRetryableFailure"]
        ELSE [rows |-> rows \cup {row}, address |-> {row}, exc |-> "none"]

\* _allocate_from_subnet: the policy check and the insert.  The result is
\* the rows of the store, the row created (a set) and the exception raised.
_allocate_from_subnet(f, subnet, rows) ==
    LET next_ip == NextIp(f, subnet)
        row == ip_address_create(Context(f.tenant, FALSE),
                                 RowId(f, subnet.ip_version), next_ip,
                                 subnet.id, subnet.ip_version)
    IN  IF subnet.policy # {} /\ InPolicy(next_ip, subnet) /\ f.ip = {}
        THEN [rows |-> rows, address |-> {},
              exc |-> "IPAddressPolicyRetryableFailure"]
        ELSE IF Duplicate(rows, row.subnet_id, row.address)
        THEN [rows |-> rows, address |-> {},
              exc |-> IF f.ip # {} THEN "IpAddressInUse"
                      ELSE "IPAddressRetryableFailure"]
        ELSE [rows |-> rows \cup {row}, address |-> {row}, exc |-> "none"]

\* generate_v6: whether candidate number `tries` is the RFC 2462 address
IsRfc2462(f) == f.mac # NULL /\ f.tries = 0

\* generate_v6: the state of module random after candidate number `tries`
\* was drawn (rfc3041_ip seeds it when its first value is asked for)
RngAfter(f, state) ==
    IF IsRfc2462(f) THEN state
    ELSE IF f.tries = (IF f.mac # NULL THEN 1 ELSE 0)
    THEN NextRandom(Seed(f.port))
    ELSE NextRandom(state)

\* generate_v6: candidate number `tries`
generate_v6(f, subnet, state) ==
    IF IsRfc2462(f) THEN rfc2462_ip(f.mac, subnet.cidr_first)
    ELSE rfc3041_ip(RngAfter(f, state), subnet.cidr_first)

\* _allocate_ips_from_subnets publishing the notification of an address as
\* soon as it is appended
AppendedNotifies(f, r) ==
    LET g == [f EXCEPT !.new_addresses = Append(@, Ref(r)),
                       !.notified = Append(@, Ref(r)),
                       !.subs = Tail(f.subs), !.tries = 0, !.cand = NULL]
    IN  IF g.subs = <<>> THEN FinishCreate(g) ELSE [g EXCEPT !.pc = "alloc"]

\* _allocate_ips_from_subnets: an address was appended, go on with the next
\* subnet; after the last one the retry loop breaks
Appended(f, r) ==
    LET g == [f EXCEPT !.new_addresses = Append(@, Ref(r)),
                       !.subs = Tail(f.subs), !.tries = 0, !.cand = NULL]
    IN  IF g.subs = <<>> THEN FinishCreate(g) ELSE [g EXCEPT !.pc = "alloc"]

\* _choose_available_subnet after its select_subnet calls
AfterChoose(f, subs) ==
    IF f.strategy = "ANY"
    THEN IF subs = <<>> THEN Raise(f, "IpAddressGenerationFailure")
         ELSE [f EXCEPT !.pc = "alloc", !.need = <<>>, !.subs = subs]
    ELSE IF f.new_addresses = <<>> /\ subs = <<>>
    THEN Raise(f, "IpAddressGenerationFailure")
    ELSE IF f.strategy = "BOTH_REQUIRED"
            /\ Len(f.new_addresses) + Len(subs) < 2
    THEN Raise(f, "IpAddressGenerationFailure")
    ELSE IF subs = <<>> THEN FinishCreate(f)
    ELSE [f EXCEPT !.pc = "alloc", !.need = <<>>, !.subs = subs]

\* _try_allocate_ip_address after the subnets were chosen.  With a subnet
\* given the list is [select_subnet(...)]; a None in it is skipped by
\* _allocate_ips_from_subnets and the retry loop breaks.
Chosen(f, subs) ==
    IF f.sub = {} THEN AfterChoose(f, subs)
    ELSE IF subs = <<>> THEN FinishCreate(f)
    ELSE [f EXCEPT !.pc = "alloc", !.need = <<>>, !.subs = subs]

\* ------------------------------------------------------------ the actions
\* a worker's frame changes; what a returning call hands out becomes held
Step(w, f) ==
    /\ wk' = [wk EXCEPT ![w] = f]
    /\ held' = held \cup Returned(f)

\* a row that is in no table, for a claim that matches nothing
NoRow == ip_address_create(Context(0, FALSE), 0, IPAddress(6, 0), 0, 0)

\* allocate_ip_address is called: the arguments are bound and the reuse pass
\* begins
allocate_ip_address(w, strategy, ip, sub, ra, c) ==
    /\ wk[w].pc \in {"idle", "done"}
    /\ wk' = [wk EXCEPT ![w] =
                [IdleFrame EXCEPT !.pc = "realloc", !.call = calls + 1,
                                  !.strategy = strategy, !.ip = ip,
                                  !.sub = sub,
                                  !.ra = ra, !.tenant = c.tenant,
                                  !.port = c.port, !.mac = c.mac]]
    /\ calls' = calls + 1
    /\ UNCHANGED <<subnets, ips, now, rng, held, macvars, portvars, utilvars>>

\* a caller enters allocate_ip_address with some strategy and arguments
AllocateStart(w) ==
    /\ calls < MaxCalls
    /\ \E strategy \in Strategies, ip \in ExplicitIps, ra \in ReuseAfters,
          c \in Clients :
          allocate_ip_address(w, strategy, ip, {}, ra, c)

\* attempt_to_reallocate_ip: transaction_create and the claim
\* ip_address_reallocate of one iteration
ReallocateClaim(w) ==
    LET f == wk[w]
        ctx == elevated(Context(f.tenant, FALSE))
        matching == ip_address_find(ips, ip_kwargs(f), ctx)
    IN  /\ f.pc = "realloc"
        /\ \E pick \in (IF matching = {} THEN {NoRow} ELSE matching) :
              LET res == ip_address_reallocate(ips, ip_kwargs(f), ctx, pick,
                                               TxnId(f), f.tenant)
              IN  /\ ips' = res.rows
                  /\ IF res.result
                     THEN Step(w, [f EXCEPT !.pc = "realloc_find",
                                            !.txn = TxnId(f)])
                     ELSE Step(w, AfterReuse(f))
        /\ UNCHANGED <<subnets, now, rng, calls, macvars, portvars, utilvars>>

\* attempt_to_reallocate_ip: ip_address_reallocate_find of one iteration
ReallocateFind(w) ==
    LET f == wk[w]
        res == ip_address_reallocate_find(ips, subnets, f.txn)
    IN  /\ f.pc = "realloc_find"
        /\ ips' = res.rows
        /\ IF res.address # {}
           THEN Step(w, AfterReuse(
                    [f EXCEPT !.new_addresses =
                        Append(@, Ref(CHOOSE r \in res.address : TRUE))]))
           ELSE IF f.retry + 1 < ip_address_retry_max
           THEN Step(w, [f EXCEPT !.pc = "realloc", !.retry = f.retry + 1,
                                  !.txn = NULL])
           ELSE Step(w, AfterReuse(f))
        /\ UNCHANGED <<subnets, now, rng, calls, macvars, portvars, utilvars>>

\* _choose_available_subnet: one select_subnet call, a transaction of its
\* own
SelectSubnet(w) ==
    LET f == wk[w]
        res == select_subnet(subnets, ips, f.ip, f.sub, Head(f.need))
        subs == IF res.subnet = {} THEN f.subs
                ELSE Append(f.subs, CHOOSE x \in res.subnet : TRUE)
    IN  /\ f.pc = "select"
        /\ f.need # <<>>
        /\ subnets' = res.subnets
        /\ IF res.raised # "none" THEN Step(w, Raise(f, res.raised))
           ELSE IF Tail(f.need) # <<>>
           THEN Step(w, [f EXCEPT !.need = Tail(f.need), !.subs = subs])
           ELSE Step(w, Chosen(f, subs))
        /\ UNCHANGED <<ips, now, rng, calls, macvars, portvars, utilvars>>

\* _allocate_ips_from_subnets on a v4 subnet or with an explicit address:
\* _allocate_from_subnet
AllocateFromSubnet(w) ==
    LET f == wk[w]
        subnet == Head(f.subs)
        res == _allocate_from_subnet(f, subnet, ips)
    IN  /\ f.pc = "alloc"
        /\ subnet.ip_version = 4 \/ f.ip # {}
        /\ ips' = res.rows
        /\ IF res.exc = "none"
           THEN Step(w, Appended(f, CHOOSE r \in res.address : TRUE))
           ELSE IF Retryable(res.exc) THEN Step(w, NextAttempt(f))
           ELSE Step(w, Raise(f, res.exc))
        /\ UNCHANGED <<subnets, now, rng, calls, macvars, portvars, utilvars>>

\* _allocate_from_v6_subnet: one candidate of generate_v6, up to the
\* transaction that finds and claims a deallocated row
AllocateFromV6Subnet(w) ==
    LET f == wk[w]
        subnet == Head(f.subs)
        ip_address == FromInt(generate_v6(f, subnet, rng))
        ctx == Context(f.tenant, FALSE)
        found == ip_address_find(ips,
                     [NoFilter EXCEPT !.ip_address = {ip_address},
                                      !.reuse_after = f.ra,
                                      !.deallocated = 1,
                                      !.subnet_id = {subnet.id}], ctx)
    IN  /\ f.pc = "alloc"
        /\ subnet.ip_version = 6 /\ f.ip = {}
        /\ rng' = RngAfter(f, rng)
        /\ IF f.tries > v6_allocation_attempts - 1
           THEN /\ Step(w, Raise(f, "IpAddressGenerationFailure"))
                /\ ips' = ips
           ELSE IF InPolicy(ip_address, subnet)
           THEN /\ Step(w, [f EXCEPT !.tries = f.tries + 1])
                /\ ips' = ips
           ELSE IF found # {}
           THEN LET address == CHOOSE r \in found : TRUE
                    claimed == V6ClaimUpdate(address, f.tenant)
                IN  /\ ips' = (ips \ {address}) \cup {claimed}
                    /\ Step(w, Appended(f, claimed))
           ELSE /\ Step(w, [f EXCEPT !.pc = "v6_create",
                                     !.cand = ip_address.value])
                /\ ips' = ips
        /\ UNCHANGED <<subnets, now, calls, macvars, portvars, utilvars>>

\* the insert step going back to the loop without counting the candidate
V6CreateNoCount(w) ==
    LET f == wk[w]
        subnet == Head(f.subs)
        row == ip_address_create(Context(f.tenant, FALSE), RowId(f, 6),
                                 FromInt(f.cand), subnet.id,
                                 subnet.ip_version)
    IN  /\ f.pc = "v6_create"
        /\ IF Duplicate(ips, row.subnet_id, row.address)
           THEN /\ Step(w, [f EXCEPT !.pc = "alloc", !.cand = NULL])
                /\ ips' = ips
           ELSE /\ ips' = ips \cup {row}
                /\ Step(w, Appended(f, row))
        /\ UNCHANGED <<subnets, now, rng, calls, macvars, portvars, utilvars>>

\* _allocate_from_v6_subnet: the insert of the candidate, a transaction of
\* its own
V6Create(w) ==
    LET f == wk[w]
        subnet == Head(f.subs)
        row == ip_address_create(Context(f.tenant, FALSE), RowId(f, 6),
                                 FromInt(f.cand), subnet.id,
                                 subnet.ip_version)
    IN  /\ f.pc = "v6_create"
        /\ IF Duplicate(ips, row.subnet_id, row.address)
           THEN /\ Step(w, [f EXCEPT !.pc = "alloc", !.tries = f.tries + 1,
                                     !.cand = NULL])
                /\ ips' = ips
           ELSE /\ ips' = ips \cup {row}
                /\ Step(w, Appended(f, row))
        /\ UNCHANGED <<subnets, now, rng, calls, macvars, portvars, utilvars>>

\* the delete notifications after one more was published for each of ids
Published(counts, ids) ==
    [id \in DOMAIN counts \cup ids |->
        (IF id \in DOMAIN counts THEN counts[id] ELSE 0)
            + (IF id \in ids THEN 1 ELSE 0)]

\* deallocate_ip_address on an address a caller holds
DeallocateIp(h) ==
    /\ h \in held
    /\ \E r \in ips :
          /\ r.id = h.id
          /\ ips' = (ips \ {r}) \cup {SetDeallocated(r)}
          /\ deleted' = Published(deleted, {r.id})
    /\ held' = {x \in held : x.id # h.id}
    /\ UNCHANGED <<subnets, now, rng, wk, calls, macvars, ports, utilvars>>

\* time passes
Tick ==
    /\ now < MaxTime
    /\ now' = now + 1
    /\ UNCHANGED <<subnets, ips, rng, wk, calls, held, macvars, portvars, utilvars>>

\* ------------------------------------------------------- MAC addresses
\* the filters of a query on models.MacAddress; NULL: the key is absent
NoMacFilter ==
    [deallocated |-> NULL, reuse_after |-> NULL, address |-> NULL,
     transaction_id |-> NULL]

\* _model_query on models.MacAddress: whether row r passes the filters
MacModelQuery(r, f, ctx) ==
    /\ f.deallocated # NULL => r.deallocated = f.deallocated
    /\ f.transaction_id # NULL => r.transaction_id = f.transaction_id
    /\ f.address # NULL => r.address = f.address
    /\ f.reuse_after # NULL =>
           /\ r.deallocated_at # NULL
           /\ r.deallocated_at <= now - f.reuse_after
    /\ ~ctx.is_admin => r.tenant_id = ctx.tenant_id

\* mac_address_find: the rows a query returns
mac_address_find(rows, f, ctx) == {r \in rows : MacModelQuery(r, f, ctx)}

\* quark_mac_addresses without the unique index on address
MacNoUniqueIndex(rows, address) == FALSE

\* the unique index on quark_mac_addresses.address
MacDuplicate(rows, address) == \E r \in rows : r.address = address

\* mac_address_create: the row an insert adds
mac_address_create(ctx, address, range_id) ==
    [address |-> address, mac_address_range_id |-> range_id,
     tenant_id |-> ctx.tenant_id, deallocated |-> 0,
     deallocated_at |-> NULL, transaction_id |-> NULL]

\* the update_kwargs of the MAC reuse claim, applied to the claimed row
MacReallocateUpdate(r, txn) ==
    [r EXCEPT !.deallocated = 0, !.deallocated_at = NULL,
              !.transaction_id = txn]

\* mac_address_reallocate: the claim and its result row_count == 1
mac_address_reallocate(rows, f, ctx, pick, txn) ==
    LET updated == update(mac_address_find(rows, f, ctx), pick)
    IN  [rows |-> (rows \ updated)
                    \cup {MacReallocateUpdate(r, txn) : r \in updated},
         result |-> Cardinality(updated) = 1]

\* mac_address_reallocate_find: the re-find by transaction id; a row of a
\* do_not_use range is deleted.  Returns the rows left and the row handed
\* back (a set with at most one element).
mac_address_reallocate_find(rows, rngs, txn) ==
    LET f == [NoMacFilter EXCEPT !.transaction_id = txn]
        found == mac_address_find(rows, f, Context(0, TRUE))
    IN  IF found = {} THEN [rows |-> rows, mac |-> {}]
        ELSE LET mac == CHOOSE r \in found : TRUE
             IN  IF rngs[mac.mac_address_range_id].do_not_use
                 THEN [rows |-> rows \ {mac}, mac |-> {}]
                 ELSE [rows |-> rows, mac |-> {mac}]

\* count(MacAddress.address) of the outer join in
\* mac_address_range_find_allocation_counts
MacsInRange(rows, id) ==
    Cardinality({r \in rows : r.mac_address_range_id = id})

\* mac_address_range_find_allocation_counts: the ranges that the query
\* ordered by count descending with LIMIT 1 may return (any of the ranges
\* with the highest count).  address is NULL when no MAC was asked for.
mac_address_range_find_allocation_counts(rngs, rows, address, forbidden) ==
    LET cands == {id \in DOMAIN rngs :
                     /\ address # NULL =>
                            /\ rngs[id].last_address >= address
                            /\ rngs[id].first_address <= address
                     /\ rngs[id].next_auto_assign_mac # FULL
                     /\ ~forbidden => ~rngs[id].do_not_use}
    IN  {id \in cands :
            \A other \in cands :
                MacsInRange(rows, id) >= MacsInRange(rows, other)}

\* a cursor update that steps over one address
MacRangeCursorSkips(rngs, id) ==
    IF rngs[id].next_auto_assign_mac # FULL
    THEN [rngs EXCEPT ![id].next_auto_assign_mac = @ + 2]
    ELSE rngs

\* mac_range_update_next_auto_assign_mac
mac_range_update_next_auto_assign_mac(rngs, id) ==
    IF rngs[id].next_auto_assign_mac # FULL
    THEN [rngs EXCEPT ![id].next_auto_assign_mac = @ + 1]
    ELSE rngs

\* mac_range_update_set_full that leaves the range as it is
MacRangeLeftOpen(rngs, id) == rngs

\* mac_range_update_set_full
mac_range_update_set_full(rngs, id) ==
    IF rngs[id].next_auto_assign_mac # FULL
    THEN [rngs EXCEPT ![id].next_auto_assign_mac = FULL]
    ELSE rngs

\* the inputs of the allocate_mac_address calls
ExplicitMacs == {NULL, 2}
MacTenants == {1, 2}

IdleMacFrame ==
    [pc |-> "idle", call |-> 0, ra |-> 0, mac |-> NULL, forbidden |-> FALSE,
     tenant |-> 0, retry |-> 0, txn |-> NULL, range |-> NULL,
     next_address |-> NULL, outcome |-> "none", address |-> NULL]

\* the fresh id of the Transaction row of one reuse attempt
MacTxnId(f) == (f.call - 1) * mac_address_retry_max + f.retry + 1

\* allocate_mac_address returns the row of `address`
MacReturn(f, address) ==
    [f EXCEPT !.pc = "done", !.outcome = "ok", !.address = address,
              !.retry = 0, !.txn = NULL, !.range = NULL,
              !.next_address = NULL]

\* allocate_mac_address raises
MacRaise(f, exc) ==
    [f EXCEPT !.pc = "done", !.outcome = exc, !.retry = 0, !.txn = NULL,
              !.range = NULL, !.next_address = NULL]

\* the create phase begins
MacCreatePhase(f) ==
    [f EXCEPT !.pc = "range", !.retry = 0, !.txn = NULL]

\* `continue` in a create loop that has no last iteration
MacNextCreateUnbounded(f) ==
    [f EXCEPT !.pc = "range", !.retry = f.retry + 1, !.range = NULL,
              !.next_address = NULL]

\* `continue` in the create loop; after the last iteration
\* MacAddressGenerationFailure is raised
MacNextCreate(f) ==
    IF f.retry + 1 < mac_address_retry_max
    THEN [f EXCEPT !.pc = "range", !.retry = f.retry + 1, !.range = NULL,
                   !.next_address = NULL]
    ELSE MacRaise(f, "MacAddressGenerationFailure")

\* a MAC worker's frame changes; what a returning call hands out is held
MacStep(w, f) ==
    /\ mk' = [mk EXCEPT ![w] = f]
    /\ mheld' = IF f.pc = "done" /\ f.outcome = "ok"
                THEN mheld \cup {[call |-> f.call, address |-> f.address,
                                  tenant |-> f.tenant]}
                ELSE mheld

\* a row that is in no table, for a claim that matches nothing
NoMac == mac_address_create(Context(0, FALSE), 0, 0)

\* allocate_mac_address is called
MacAllocateStart(w) ==
    /\ mk[w].pc \in {"idle", "done"}
    /\ mcalls < MaxCalls
    /\ \E ra \in ReuseAfters, mac \in ExplicitMacs, forbidden \in BOOLEAN,
          tenant \in MacTenants :
          mk' = [mk EXCEPT ![w] =
                    [IdleMacFrame EXCEPT !.pc = "realloc",
                                         !.call = mcalls + 1, !.ra = ra,
                                         !.mac = mac, !.tenant = tenant,
                                         !.forbidden = forbidden]]
    /\ mcalls' = mcalls + 1
    /\ UNCHANGED <<ranges, macs, mheld, mac_exc, now, ipvars,
                    portvars, utilvars>>

\* allocate_mac_address, reuse loop: transaction_create and the claim
\* mac_address_reallocate of one iteration
MacReallocateClaim(w) ==
    LET f == mk[w]
        ctx == elevated(Context(f.tenant, FALSE))
        filter_kwargs == [NoMacFilter EXCEPT !.reuse_after = f.ra,
                                             !.deallocated = 1,
                                             !.address = f.mac]
        matching == mac_address_find(macs, filter_kwargs, ctx)
    IN  /\ f.pc = "realloc"
        /\ \E pick \in (IF matching = {} THEN {NoMac} ELSE matching) :
              LET res == mac_address_reallocate(macs, filter_kwargs, ctx,
                                                pick, MacTxnId(f))
              IN  /\ macs' = res.rows
                  /\ IF res.result
                     THEN MacStep(w, [f EXCEPT !.pc = "realloc_find",
                                               !.txn = MacTxnId(f)])
                     ELSE MacStep(w, MacCreatePhase(f))
        /\ UNCHANGED <<ranges, mcalls, mac_exc, now, ipvars,
                    portvars, utilvars>>

\* allocate_mac_address, reuse loop: mac_address_reallocate_find of one
\* iteration
MacReallocateFind(w) ==
    LET f == mk[w]
        res == mac_address_reallocate_find(macs, ranges, f.txn)
    IN  /\ f.pc = "realloc_find"
        /\ macs' = res.rows
        /\ IF res.mac # {}
           THEN MacStep(w, MacReturn(f, (CHOOSE r \in res.mac : TRUE).address))
           ELSE IF f.retry + 1 < mac_address_retry_max
           THEN MacStep(w, [f EXCEPT !.pc = "realloc",
                                     !.retry = f.retry + 1, !.txn = NULL])
           ELSE MacStep(w, MacCreatePhase(f))
        /\ UNCHANGED <<ranges, mcalls, mac_exc, now, ipvars,
                    portvars, utilvars>>

\* allocate_mac_address, create loop: the transaction that finds a range
\* and moves its cursor
MacRange(w) ==
    LET f == mk[w]
        found == mac_address_range_find_allocation_counts(
                     ranges, macs, f.mac, f.forbidden)
    IN  /\ f.pc = "range"
        /\ IF found = {}
           THEN /\ MacStep(w, MacRaise(f, "MacAddressGenerationFailure"))
                /\ ranges' = ranges
           ELSE \E id \in found :
                  LET mac_range == ranges[id]
                      addr_count == MacsInRange(macs, id)
                      last == mac_range.last_address
                      first == mac_range.first_address
                      next_address == IF f.mac # NULL THEN f.mac
                                      ELSE mac_range.next_auto_assign_mac
                  IN  IF (last - first + 1) <= addr_count
                      THEN /\ ranges' = mac_range_update_set_full(ranges, id)
                           /\ MacStep(w, MacNextCreate(f))
                      ELSE /\ ranges' =
                                IF f.mac # NULL THEN ranges
                                ELSE IF next_address + 1 > last
                                THEN mac_range_update_set_full(ranges, id)
                                ELSE mac_range_update_next_auto_assign_mac(
                                         ranges, id)
                           /\ MacStep(w, [f EXCEPT
                                             !.pc = "create", !.range = id,
                                             !.next_address = next_address])
        /\ UNCHANGED <<macs, mcalls, mac_exc, now, ipvars,
                    portvars, utilvars>>

\* allocate_mac_address, create loop: the insert mac_address_create, a
\* transaction of its own
MacCreate(w) ==
    LET f == mk[w]
        row == mac_address_create(Context(f.tenant, FALSE), f.next_address,
                                  f.range)
    IN  /\ f.pc = "create"
        /\ IF MacDuplicate(macs, row.address)
           THEN /\ MacStep(w, MacNextCreate(f))
                /\ macs' = macs
           ELSE /\ macs' = macs \cup {row}
                /\ MacStep(w, MacReturn(f, row.address))
        /\ UNCHANGED <<ranges, mcalls, mac_exc, now, ipvars,
                    portvars, utilvars>>

\* the last deallocate_mac_address call returned, or none was made
NoMacExc ==
    [exc |-> "none", address |-> NULL, tenant_id |-> NULL, is_admin |-> FALSE]

\* deallocate_mac_address that never finds the row
DeallocateMacNeverFinds(ctx, address) ==
    /\ mac_exc' = [exc |-> "NotFound", address |-> address,
                   tenant_id |-> ctx.tenant_id, is_admin |-> ctx.is_admin]
    /\ macs' = macs

\* deallocate_mac_address: the rows afterwards and the exception raised
deallocate_mac_address(ctx, address) ==
    LET found == mac_address_find(macs,
                     [NoMacFilter EXCEPT !.address = address], ctx)
    IN  IF found = {}
        THEN /\ mac_exc' = [exc |-> "NotFound", address |-> address,
                            tenant_id |-> ctx.tenant_id,
                            is_admin |-> ctx.is_admin]
             /\ macs' = macs
        ELSE LET mac == CHOOSE r \in found : TRUE
             IN  /\ macs' = IF ranges[mac.mac_address_range_id].do_not_use
                            THEN macs \ {mac}
                            ELSE (macs \ {mac})
                                 \cup {[mac EXCEPT !.deallocated = 1,
                                                   !.deallocated_at = now]}
                 /\ mac_exc' = NoMacExc

\* deallocate_mac_address on a MAC a caller holds, with the caller's context
DeallocateMac(h) ==
    LET ctx == Context(h.tenant, FALSE)
        found == mac_address_find(macs,
                     [NoMacFilter EXCEPT !.address = h.address], ctx)
    IN  /\ h \in mheld
        /\ found # {}
        /\ deallocate_mac_address(ctx, h.address)
        /\ mheld' = mheld \ {h}
        /\ UNCHANGED <<ranges, mk, mcalls, now, ipvars, portvars, utilvars>>

\* deallocate_mac_address on any address, with any context; a MAC that is
\* deallocated is held no longer
DeallocateAnyMac ==
    \E ctx \in {Context(1, FALSE), Context(2, FALSE), Context(0, TRUE)},
       address \in {1, 2, 3, 5} :
        /\ deallocate_mac_address(ctx, address)
        /\ mheld' = IF mac_exc'.exc = "none"
                    THEN {h \in mheld : h.address # address}
                    ELSE mheld
        /\ UNCHANGED <<ranges, mk, mcalls, now, ipvars, portvars, utilvars>>

\* ------------------------------------------------------------ the system
\* a subnet row as the cidr setter of models.Subnet fills it in
Subnet(id, version, cidr_first, cidr_size, policy) ==
    LET first == ipv6(IPAddress(version, cidr_first)).value
    IN  [id |-> id, ip_version |-> version, cidr_first |-> cidr_first,
         cidr_size |-> cidr_size, first_ip |-> first,
         last_ip |-> first + cidr_size - 1, next_auto_assign_ip |-> first,
         do_not_use |-> FALSE, policy |-> policy,
         policy_size |-> Cardinality(policy)]

\* no port and no delete notification
PortsIdle == ports = <<>> /\ deleted = <<>>

\* what a call that has not returned yet has returned
NoRet == [done |-> FALSE, exc |-> "none", value |-> FALSE]

\* no function call on its own
UtilIdle == args = <<>> /\ ret = NoRet

\* no MAC range, no MAC row and no allocate_mac_address call
MacIdle ==
    /\ ranges = <<>>
    /\ macs = {}
    /\ mk = [w \in Workers |-> IdleMacFrame]
    /\ mcalls = 0
    /\ mheld = {}
    /\ mac_exc = NoMacExc

\* one network with a v4 subnet of 2 addresses whose policy excludes the
\* network address, and a v6 subnet of 8 addresses whose policy excludes one
\* address; no address rows yet
Init ==
    /\ subnets = [id \in {1, 2} |->
                    IF id = 1 THEN Subnet(1, 4, 8, 2, {8})
                    ELSE Subnet(2, 6, 32, 8, {36})]
    /\ ips = {}
    /\ now = 0
    /\ rng = 0
    /\ wk = [w \in Workers |-> IdleFrame]
    /\ calls = 0
    /\ held = {}
    /\ MacIdle
    /\ PortsIdle
    /\ UtilIdle

Next ==
    \/ \E w \in Workers : AllocateStart(w)
    \/ \E w \in Workers : ReallocateClaim(w)
    \/ \E w \in Workers : ReallocateFind(w)
    \/ \E w \in Workers : SelectSubnet(w)
    \/ \E w \in Workers : AllocateFromSubnet(w)
    \/ \E w \in Workers : AllocateFromV6Subnet(w)
    \/ \E w \in Workers : V6Create(w)
    \/ \E h \in held : DeallocateIp(h)
    \/ Tick

Spec == Init /\ [][Next]_vars

\* ------------------------------------------------- the reuse pass alone
\* a row allocated or deallocated at time 0 by tenant 1, as an earlier call
\* left it
StoredRow(subs, subnet_id, address, deallocated) ==
    [id |-> 100 + address, subnet_id |-> subnet_id, address |-> address,
     version |-> subs[subnet_id].ip_version, deallocated |-> deallocated,
     deallocated_at |-> IF deallocated = 1 THEN 0 ELSE NULL,
     allocated_at |-> 0, transaction_id |-> NULL, used_by_tenant_id |-> 1]

\* the rows a store may hold: the addresses of the v4 subnet, deallocated
\* (the first one also allocated), the address two past its last_ip, which
\* a row keeps when its subnet's cidr was narrowed, and the deallocated
\* addresses of the v6 subnet
StoredRows(subs) ==
    {StoredRow(subs, 1, a, 1) :
        a \in (subs[1].first_ip .. subs[1].last_ip) \cup {subs[1].last_ip + 2}}
    \cup {StoredRow(subs, 1, subs[1].first_ip, 0)}
    \cup {StoredRow(subs, 2, a, 1) : a \in subs[2].first_ip .. subs[2].last_ip}

\* two stored rows, the v4 subnet in use or marked do_not_use, and no call
\* yet
InitReuse ==
    /\ \E d \in BOOLEAN :
          subnets = [id \in {1, 2} |->
                        IF id = 1
                        THEN [Subnet(1, 4, 8, 2, {8}) EXCEPT !.do_not_use = d]
                        ELSE Subnet(2, 6, 32, 2, {32})]
    /\ ips \in {S \in SUBSET StoredRows(subnets) :
                   /\ Cardinality(S) = 2
                   /\ \A r1, r2 \in S : r1.address = r2.address => r1 = r2}
    /\ now = 0
    /\ rng = 0
    /\ wk = [w \in Workers |-> IdleFrame]
    /\ calls = 0
    /\ held = {}
    /\ MacIdle
    /\ PortsIdle
    /\ UtilIdle

\* calls of allocate_ip_address up to the end of their reuse pass
NextReuse ==
    \/ \E w \in Workers : AllocateStart(w)
    \/ \E w \in Workers : ReallocateClaim(w)
    \/ \E w \in Workers : ReallocateFind(w)
    \/ Tick

SpecReuse == InitReuse /\ [][NextReuse]_vars

\* ----------------------------------------------------- MAC allocation
\* a MAC range row
MacAddressRange(first, last, do_not_use) ==
    [first_address |-> first, last_address |-> last,
     next_auto_assign_mac |-> first, do_not_use |-> do_not_use]

\* a MAC row of tenant 1 deallocated at time 0, as an earlier call left it
StoredMac(address, range_id) ==
    [address |-> address, mac_address_range_id |-> range_id,
     tenant_id |-> 1, deallocated |-> 1, deallocated_at |-> 0,
     transaction_id |-> NULL]

\* a range of 2 addresses in use and a do_not_use range of 1 address; up to
\* two deallocated MAC rows; no subnet, no address row and no
\* allocate_ip_address call
InitMac ==
    /\ ranges = <<MacAddressRange(1, 2, FALSE), MacAddressRange(5, 5, TRUE)>>
    /\ macs \in SUBSET {StoredMac(1, 1), StoredMac(2, 1), StoredMac(5, 2)}
    /\ Cardinality(macs) <= 2
    /\ mk = [w \in Workers |-> IdleMacFrame]
    /\ mcalls = 0
    /\ mheld = {}
    /\ mac_exc = NoMacExc
    /\ now = 0
    /\ subnets = <<>>
    /\ ips = {}
    /\ rng = 0
    /\ wk = [w \in Workers |-> IdleFrame]
    /\ calls = 0
    /\ held = {}
    /\ PortsIdle
    /\ UtilIdle

NextMac ==
    \/ \E w \in Workers : MacAllocateStart(w)
    \/ \E w \in Workers : MacReallocateClaim(w)
    \/ \E w \in Workers : MacReallocateFind(w)
    \/ \E w \in Workers : MacRange(w)
    \/ \E w \in Workers : MacCreate(w)
    \/ \E h \in mheld : DeallocateMac(h)
    \/ Tick

SpecMac == InitMac /\ [][NextMac]_vars

\* --------------------------------------------- IP and MAC allocation
\* IP allocation and MAC allocation share no table: a behaviour exercises
\* one of the two, on a store set up for it
NetworkSetUp == subnets # <<>>

\* allocate_ip_address and allocate_mac_address calls, each kind on its
\* store
NextAllocate ==
    \/ \E w \in Workers : NetworkSetUp /\ AllocateStart(w)
    \/ \E w \in Workers : NetworkSetUp /\ ReallocateClaim(w)
    \/ \E w \in Workers : NetworkSetUp /\ ReallocateFind(w)
    \/ \E w \in Workers : NetworkSetUp /\ SelectSubnet(w)
    \/ \E w \in Workers : NetworkSetUp /\ AllocateFromSubnet(w)
    \/ \E w \in Workers : NetworkSetUp /\ AllocateFromV6Subnet(w)
    \/ \E w \in Workers : NetworkSetUp /\ V6Create(w)
    \/ \E h \in held : NetworkSetUp /\ DeallocateIp(h)
    \/ \E w \in Workers : ~NetworkSetUp /\ MacAllocateStart(w)
    \/ \E w \in Workers : ~NetworkSetUp /\ MacReallocateClaim(w)
    \/ \E w \in Workers : ~NetworkSetUp /\ MacReallocateFind(w)
    \/ \E w \in Workers : ~NetworkSetUp /\ MacRange(w)
    \/ \E w \in Workers : ~NetworkSetUp /\ MacCreate(w)
    \/ \E h \in mheld : ~NetworkSetUp /\ DeallocateMac(h)
    \/ Tick

SpecAllocate == (Init \/ InitMac) /\ [][NextAllocate]_vars

\* the reuse pass of allocate_ip_address and of allocate_mac_address calls on
\* stores that hold rows of earlier calls
NextClaim ==
    \/ \E w \in Workers : NetworkSetUp /\ AllocateStart(w)
    \/ \E w \in Workers : NetworkSetUp /\ ReallocateClaim(w)
    \/ \E w \in Workers : NetworkSetUp /\ ReallocateFind(w)
    \/ \E w \in Workers : ~NetworkSetUp /\ MacAllocateStart(w)
    \/ \E w \in Workers : ~NetworkSetUp /\ MacReallocateClaim(w)
    \/ \E w \in Workers : ~NetworkSetUp /\ MacReallocateFind(w)
    \/ \E w \in Workers : ~NetworkSetUp /\ MacRange(w)
    \/ \E w \in Workers : ~NetworkSetUp /\ MacCreate(w)
    \/ \E h \in mheld : ~NetworkSetUp /\ DeallocateMac(h)
    \/ Tick

SpecClaim == (InitReuse \/ InitMac) /\ [][NextClaim]_vars

\* ------------------------------------------- sequential calls, one subnet
\* the number of sequential calls
S1Calls == 7

\* one network with a single empty v4 subnet of 8 addresses whose policy
\* excludes the first and the last; the cursor is at first_ip or just after
InitS1 ==
    /\ \E d \in {0, 1} :
          subnets = [id \in {1} |->
                       [Subnet(1, 4, 8, 8, {8, 15})
                           EXCEPT !.next_auto_assign_ip = @ + d]]
    /\ ips = {}
    /\ now = 0
    /\ rng = 0
    /\ wk = [w \in Workers |-> IdleFrame]
    /\ calls = 0
    /\ held = {}
    /\ MacIdle
    /\ PortsIdle
    /\ UtilIdle

\* a caller enters allocate_ip_address under ANY without an explicit
\* address, while no other call is in progress
SequentialAllocate(w) ==
    /\ \A v \in Workers : wk[v].pc \in {"idle", "done"}
    /\ calls < S1Calls
    /\ \E ra \in ReuseAfters, c \in Clients :
          allocate_ip_address(w, "ANY", {}, {}, ra, c)

NextS1 ==
    \/ \E w \in Workers : SequentialAllocate(w)
    \/ \E w \in Workers : ReallocateClaim(w)
    \/ \E w \in Workers : SelectSubnet(w)
    \/ \E w \in Workers : AllocateFromSubnet(w)
    \/ Tick

SpecS1 == InitS1 /\ [][NextS1]_vars

\* ---------------------------------------- sequential calls, stored rows
\* the rows of the single subnet that earlier calls may have left: two
\* valid deallocated addresses, an allocated one, the deallocated first
\* address, which the policy excludes, and a deallocated address outside the
\* cidr
S2Rows(subs) ==
    {StoredRow(subs, 1, subs[1].first_ip + k, 1) : k \in {2, 3}}
    \cup {StoredRow(subs, 1, subs[1].first_ip + 1, 0),
          StoredRow(subs, 1, subs[1].first_ip, 1),
          StoredRow(subs, 1, subs[1].last_ip + 2, 1)}

\* one network with a single v4 subnet of 8 addresses, in use or marked
\* do_not_use, whose cursor stands after the third usable address, and up
\* to three stored rows
InitS2 ==
    /\ \E d \in BOOLEAN :
          subnets = [id \in {1} |->
                       [Subnet(1, 4, 8, 8, {8, 15})
                           EXCEPT !.next_auto_assign_ip = @ + 4,
                                  !.do_not_use = d]]
    /\ ips \in {S \in SUBSET S2Rows(subnets) : Cardinality(S) \in 1 .. 3}
    /\ now = 0
    /\ rng = 0
    /\ wk = [w \in Workers |-> IdleFrame]
    /\ calls = 0
    /\ held = {}
    /\ MacIdle
    /\ PortsIdle
    /\ UtilIdle

\* no allocate_ip_address call is in progress
NoCallInProgress == \A v \in Workers : wk[v].pc \in {"idle", "done"}

\* a caller enters allocate_ip_address under ANY without an explicit
\* address, while no other call is in progress
SequentialReuse(w) ==
    /\ NoCallInProgress
    /\ calls < MaxCalls
    /\ \E ra \in ReuseAfters, c \in Clients :
          allocate_ip_address(w, "ANY", {}, {}, ra, c)

\* calls one after the other; addresses are deallocated and time passes
\* between the calls
NextS2 ==
    \/ \E w \in Workers : SequentialReuse(w)
    \/ \E w \in Workers : ReallocateClaim(w)
    \/ \E w \in Workers : ReallocateFind(w)
    \/ \E w \in Workers : SelectSubnet(w)
    \/ \E w \in Workers : AllocateFromSubnet(w)
    \/ \E h \in held : NoCallInProgress /\ DeallocateIp(h)
    \/ NoCallInProgress /\ Tick

SpecS2 == InitS2 /\ [][NextS2]_vars

\* ------------------------------------------------- a network without v6
\* one network whose only subnet is the v4 subnet; no address rows yet
InitV4Only ==
    /\ subnets = [id \in {1} |-> Subnet(1, 4, 8, 2, {8})]
    /\ ips = {}
    /\ now = 0
    /\ rng = 0
    /\ wk = [w \in Workers |-> IdleFrame]
    /\ calls = 0
    /\ held = {}
    /\ MacIdle
    /\ PortsIdle
    /\ UtilIdle

\* the operations on IP addresses, on the network with both versions or on
\* the one without v6
SpecV4Only == (Init \/ InitV4Only) /\ [][Next]_vars

\* ------------------------------------- explicit addresses, given subnets
\* explicit addresses: the first address of the v4 subnet, a v4 address
\* outside it, and an address of the v6 subnet
ExplicitAddresses ==
    {{IPAddress(4, 8)}, {IPAddress(4, 11)}, {IPAddress(6, 33)}}

\* the subnets argument of allocate_ip_address: none, or one subnet id
SubnetArgs == {{}, {1}, {2}}

\* a caller enters allocate_ip_address with an explicit address and perhaps
\* a subnet
AllocateExplicit(w) ==
    /\ calls < MaxCalls
    /\ \E strategy \in Strategies, ip \in ExplicitAddresses,
          sub \in SubnetArgs, ra \in ReuseAfters, c \in Clients :
          allocate_ip_address(w, strategy, ip, sub, ra, c)

NextExplicit ==
    \/ \E w \in Workers : AllocateStart(w)
    \/ \E w \in Workers : AllocateExplicit(w)
    \/ \E w \in Workers : ReallocateClaim(w)
    \/ \E w \in Workers : ReallocateFind(w)
    \/ \E w \in Workers : SelectSubnet(w)
    \/ \E w \in Workers : AllocateFromSubnet(w)
    \/ \E w \in Workers : AllocateFromV6Subnet(w)
    \/ \E w \in Workers : V6Create(w)
    \/ \E h \in held : DeallocateIp(h)
    \/ Tick

SpecExplicit == Init /\ [][NextExplicit]_vars

\* ------------------------------------------------- calls that keep running
\* a step of worker w's allocate_ip_address call
IpCallStep(w) ==
    NetworkSetUp /\ (\/ ReallocateClaim(w) \/ ReallocateFind(w)
                     \/ SelectSubnet(w) \/ AllocateFromSubnet(w)
                     \/ AllocateFromV6Subnet(w) \/ V6Create(w))

\* a step of worker w's allocate_mac_address call
MacCallStep(w) ==
    ~NetworkSetUp /\ (\/ MacReallocateClaim(w) \/ MacReallocateFind(w)
                      \/ MacRange(w) \/ MacCreate(w))

\* allocate_ip_address is called with reuse_after 0 and no explicit address
FairStart(w) ==
    /\ calls < MaxCalls
    /\ \E strategy \in {"ANY", "BOTH"}, c \in Clients :
          allocate_ip_address(w, strategy, {}, {}, 0, c)

\* allocate_mac_address is called by tenant 1 with reuse_after 0
MacFairStart(w) ==
    /\ mk[w].pc \in {"idle", "done"}
    /\ mcalls < MaxCalls
    /\ \E mac \in ExplicitMacs, forbidden \in BOOLEAN :
          mk' = [mk EXCEPT ![w] =
                    [IdleMacFrame EXCEPT !.pc = "realloc",
                                         !.call = mcalls + 1, !.ra = 0,
                                         !.mac = mac, !.tenant = 1,
                                         !.forbidden = forbidden]]
    /\ mcalls' = mcalls + 1
    /\ UNCHANGED <<ranges, macs, mheld, mac_exc, now, ipvars,
                    portvars, utilvars>>

NextFair ==
    \/ \E w \in Workers : NetworkSetUp /\ FairStart(w)
    \/ \E w \in Workers : NetworkSetUp /\ ReallocateClaim(w)
    \/ \E w \in Workers : NetworkSetUp /\ ReallocateFind(w)
    \/ \E w \in Workers : NetworkSetUp /\ SelectSubnet(w)
    \/ \E w \in Workers : NetworkSetUp /\ AllocateFromSubnet(w)
    \/ \E w \in Workers : NetworkSetUp /\ AllocateFromV6Subnet(w)
    \/ \E w \in Workers : NetworkSetUp /\ V6Create(w)
    \/ \E h \in held : NetworkSetUp /\ DeallocateIp(h)
    \/ \E w \in Workers : ~NetworkSetUp /\ MacFairStart(w)
    \/ \E w \in Workers : ~NetworkSetUp /\ MacReallocateClaim(w)
    \/ \E w \in Workers : ~NetworkSetUp /\ MacReallocateFind(w)
    \/ \E w \in Workers : ~NetworkSetUp /\ MacRange(w)
    \/ \E w \in Workers : ~NetworkSetUp /\ MacCreate(w)
    \/ \E h \in mheld : ~NetworkSetUp /\ DeallocateMac(h)

\* a worker that is inside a call goes on executing it; the store answers
\* every statement
SpecFair ==
    /\ (Init \/ InitMac) /\ [][NextFair]_vars
    /\ \A w \in Workers : WF_vars(IpCallStep(w) \/ MacCallStep(w))

\* ------------------------------------------------ v6 candidates in a row
\* the network of Init with a v6 policy that excludes the first RFC 3041
\* value of either port, so that the candidate loops go on to the next one
InitV6 ==
    /\ subnets = [id \in {1, 2} |->
                    IF id = 1 THEN Subnet(1, 4, 8, 2, {8})
                    ELSE Subnet(2, 6, 32, 8, {33, 36})]
    /\ ips = {}
    /\ now = 0
    /\ rng = 0
    /\ wk = [w \in Workers |-> IdleFrame]
    /\ calls = 0
    /\ held = {}
    /\ MacIdle
    /\ PortsIdle
    /\ UtilIdle

SpecV6 == InitV6 /\ [][Next]_vars

\* --------------------------------------------------- addresses of a port
\* addr["ports"]: the ports that row id is associated with
PortsOf(id) == {q \in DOMAIN ports : id \in ports[q]}

\* the ip_address keyword of deallocate_ips_by_port: {} when it is absent
IpAddressKwargs ==
    {{}, {IPAddress(4, 8)}, {IPAddress(6, 24)}, {IPAddress(6, 25)},
     {IPAddress(6, 33)}, {IPAddress(6, 34)}}

\* deallocate_ips_by_port: the rows of the port that the loop does not skip,
\* those with ip == netaddr.IPAddress(int(addr["address"])) when ip_address
\* is given
NotSkipped(port, ip) ==
    {id \in ports[port] :
        \E addr \in ips :
            /\ addr.id = id
            /\ ip # {} => ip = {FromInt(addr.address)}}

\* deallocate_ips_by_port without the test on the number of ports
DeallocateEveryRemoved(port, ip) ==
    LET ips_removed == NotSkipped(port, ip)
        rows == {addr \in ips : addr.id \in ips_removed}
    IN  /\ ips' = (ips \ rows) \cup {SetDeallocated(addr) : addr \in rows}
        /\ deleted' = Published(deleted, ips_removed)
        /\ ports' = [ports EXCEPT ![port] = @ \ ips_removed]
        /\ UNCHANGED <<subnets, now, rng, wk, calls, held, macvars, utilvars>>

\* deallocate_ips_by_port
deallocate_ips_by_port(port, ip) ==
    LET ips_removed == NotSkipped(port, ip)
        only_port == {id \in ips_removed : Cardinality(PortsOf(id)) = 1}
        rows == {addr \in ips : addr.id \in only_port}
    IN  /\ ips' = (ips \ rows) \cup {SetDeallocated(addr) : addr \in rows}
        /\ deleted' = Published(deleted, only_port)
        /\ ports' = [ports EXCEPT ![port] = @ \ ips_removed]
        /\ UNCHANGED <<subnets, now, rng, wk, calls, held, macvars, utilvars>>

\* a caller releases the addresses of a port, all or the one it names
DeallocateIpsByPort ==
    \E port \in DOMAIN ports, ip \in IpAddressKwargs :
        deallocate_ips_by_port(port, ip)

\* the rows of three allocated addresses, 2 of the v4 subnet and 1 of the v6
\* subnet, as earlier calls of tenant 1 created them
PortRows ==
    {ip_address_create(Context(1, FALSE), 1, IPAddress(4, 8), 1, 4),
     ip_address_create(Context(1, FALSE), 2, IPAddress(4, 9), 1, 4),
     ip_address_create(Context(1, FALSE), 3, IPAddress(6, 33), 2, 6)}

\* two ports, each with some of the three addresses; an address may be on
\* both ports
InitPorts ==
    /\ subnets = [id \in {1, 2} |->
                    IF id = 1 THEN Subnet(1, 4, 8, 2, {})
                    ELSE Subnet(2, 6, 32, 8, {})]
    /\ now \in {0, 1}
    /\ ips = {[r EXCEPT !.allocated_at = 0] : r \in PortRows}
    /\ ports \in [{1, 2} -> SUBSET {1, 2, 3}]
    /\ deleted = <<>>
    /\ rng = 0
    /\ wk = [w \in Workers |-> IdleFrame]
    /\ calls = 0
    /\ held = {}
    /\ MacIdle
    /\ UtilIdle

NextPorts == DeallocateIpsByPort

SpecPorts == InitPorts /\ [][NextPorts]_vars

\* ------------------------------------------ MAC deallocation by any caller
\* the two ranges of InitMac with rows in use, as earlier
\* allocate_mac_address calls of tenants 1 and 2 created them, at most one
\* row for an address
InitMacDealloc ==
    /\ ranges = <<MacAddressRange(1, 2, FALSE), MacAddressRange(5, 5, TRUE)>>
    /\ macs \in SUBSET {mac_address_create(Context(t, FALSE), a,
                                             IF a = 5 THEN 2 ELSE 1)
                          : a \in {1, 2, 5}, t \in MacTenants}
    /\ \A r1, r2 \in macs : r1.address = r2.address => r1 = r2
    /\ mk = [w \in Workers |-> IdleMacFrame]
    /\ mcalls = 0
    /\ mheld = {}
    /\ mac_exc = NoMacExc
    /\ now = 0
    /\ subnets = <<>>
    /\ ips = {}
    /\ rng = 0
    /\ wk = [w \in Workers |-> IdleFrame]
    /\ calls = 0
    /\ held = {}
    /\ PortsIdle
    /\ UtilIdle

SpecMacDealloc == InitMacDealloc /\ [][DeallocateAnyMac \/ Tick]_vars

\* ------------------------------- QuarkIpamBOTH.is_strategy_satisfied alone
\* the longest list of addresses handed to is_strategy_satisfied
MaxList == 4

\* the loop of QuarkIpamBOTH.is_strategy_satisfied: whether req.remove
\* raises ValueError, the version not being in req any more
RECURSIVE RemoveRaises(_, _)
RemoveRaises(req, versions) ==
    IF versions = <<>> THEN FALSE
    ELSE IF InList(req, Head(versions))
    THEN RemoveRaises(Remove(req, Head(versions)), Tail(versions))
    ELSE TRUE

\* QuarkIpamBOTH.is_strategy_satisfied: what a call returns or raises
BothIsStrategySatisfied(reallocated_ips, allocate_complete) ==
    IF RemoveRaises(<<4, 6>>, Versions(reallocated_ips))
    THEN [done |-> TRUE, exc |-> "ValueError", value |-> FALSE]
    ELSE [done |-> TRUE, exc |-> "none",
          value |-> is_strategy_satisfied("BOTH", reallocated_ips,
                                          allocate_complete)]

\* a caller evaluates is_strategy_satisfied of the BOTH strategy
IsStrategySatisfiedCall ==
    /\ args # <<>>
    /\ ~ret.done
    /\ ret' = BothIsStrategySatisfied(args.reallocated_ips,
                                      args.allocate_complete)
    /\ UNCHANGED <<args, now, ipvars, macvars, portvars>>

\* a list of up to MaxList addresses of version 4 or 6 and a flag
InitSatisfied ==
    /\ args \in {[reallocated_ips |-> L, allocate_complete |-> c] :
                   L \in UNION {[1 .. k -> {[version |-> 4], [version |-> 6]}]
                                  : k \in 0 .. MaxList},
                   c \in BOOLEAN}
    /\ ret = NoRet
    /\ subnets = <<>>
    /\ ips = {}
    /\ now = 0
    /\ rng = 0
    /\ wk = [w \in Workers |-> IdleFrame]
    /\ calls = 0
    /\ held = {}
    /\ MacIdle
    /\ PortsIdle

SpecSatisfied == InitSatisfied /\ [][IsStrategySatisfiedCall]_vars

\* ------------------------------------------- subnets of every fullness
\* a v4 and a v6 subnet of two addresses, each with a policy of one address
\* and with the rows in use that earlier calls left, some of them for
\* explicit addresses (which the policy does not prevent and which leave
\* the cursor alone); the v4 cursor at first_ip or just after
InitSelect ==
    /\ \E d \in {0, 1} :
          subnets = [id \in {1, 2} |->
                        IF id = 1
                        THEN [Subnet(1, 4, 8, 2, {8})
                                 EXCEPT !.next_auto_assign_ip = @ + d]
                        ELSE Subnet(2, 6, 32, 2, {32})]
    /\ ips \in SUBSET {StoredRow(subnets, id, a, 0) :
                          id \in {1, 2},
                          a \in {subnets[1].first_ip, subnets[1].last_ip,
                                 subnets[2].first_ip, subnets[2].last_ip}}
    /\ \A r \in ips : r.address \in
                         subnets[r.subnet_id].first_ip
                           .. subnets[r.subnet_id].last_ip
    /\ now = 0
    /\ rng = 0
    /\ wk = [w \in Workers |-> IdleFrame]
    /\ calls = 0
    /\ held = {}
    /\ MacIdle
    /\ PortsIdle
    /\ UtilIdle

\* calls of allocate_ip_address without an explicit address on that network;
\* no row is deallocated, so the reuse pass claims nothing
SpecSelect ==
    InitSelect /\ [][\/ \E w \in Workers, strategy \in Strategies,
                           c \in Clients :
                           /\ calls < MaxCalls
                           /\ allocate_ip_address(w, strategy, {}, {}, 0, c)
                     \/ \E w \in Workers : ReallocateClaim(w)
                     \/ \E w \in Workers : SelectSubnet(w)
                     \/ \E w \in Workers : AllocateFromSubnet(w)
                     \/ \E w \in Workers : AllocateFromV6Subnet(w)
                     \/ \E w \in Workers : V6Create(w)]_vars

\* --------------------------------- select_subnet without an effective lock
\* The lock of with_lockmode('update') keeps out the transactions of one
\* database node; between callers on different nodes of a replicated store,
\* or on a backend that ignores the lock mode, the rows can change after the
\* query read them, and the row count of the conditional update decides.
\* The loop of select_subnet then: it decides on the rows as the query read
\* them (seen, counts) and its updates run on the table as it is (subs).
\* zero tells that an update matched no row and the loop returned at once.
RECURSIVE select_subnet_unlocked(_, _, _, _, _, _)
select_subnet_unlocked(cands, seen, counts, subs, ip, pinned) ==
    IF cands = <<>>
    THEN [subnets |-> subs, subnet |-> {}, raised |-> "none", zero |-> FALSE]
    ELSE
      LET id == Head(cands)
          subnet == seen[id]
          requested == IF ip = {} THEN {}
                       ELSE {IF subnet.ip_version = 4 THEN ipv4(a) ELSE a
                             : a \in ip}
          policy_size == IF ip = {} THEN subnet.policy_size ELSE 0
          ips_in_subnet == counts[id]
      IN  IF subnet.ip_version = 4 /\ \E a \in ip : ~Convertible(a)
          THEN [subnets |-> subs, subnet |-> {},
                raised |-> "AddrConversionError", zero |-> FALSE]
          ELSE IF requested # {} /\ \E a \in requested : ~InCidr(a, subnet)
          THEN IF pinned
               THEN [subnets |-> subs, subnet |-> {},
                     raised |-> "IPAddressNotInSubnet", zero |-> FALSE]
               ELSE select_subnet_unlocked(Tail(cands), seen, counts, subs,
                                           ip, pinned)
          ELSE IF subnet.cidr_size > ips_in_subnet + policy_size - 1
          THEN IF ip = {} /\ subnet.ip_version = 4
               THEN LET cur == subnet.next_auto_assign_ip
                        upd == IF cur < subnet.first_ip \/ cur > subnet.last_ip
                               THEN subnet_update_set_full(subs, id)
                               ELSE subnet_update_next_auto_assign_ip(subs, id)
                    IN  IF upd.updated # 0
                        THEN [subnets |-> upd.subnets,
                              subnet |-> {upd.subnets[id]},
                              raised |-> "none", zero |-> FALSE]
                        ELSE [subnets |-> upd.subnets, subnet |-> {},
                              raised |-> "none", zero |-> TRUE]
               ELSE [subnets |-> subs, subnet |-> {subnet}, raised |-> "none",
                     zero |-> FALSE]
          ELSE select_subnet_unlocked(
                   Tail(cands), seen, counts,
                   subnet_update_set_full(subs, id).subnets, ip, pinned)

\* select_subnet: the query subnet_find_ordered_by_most_full, its rows and
\* counts as the caller holds them from then on
SelectQuery(w) ==
    LET f == wk[w]
    IN  /\ f.pc = "select"
        /\ f.need # <<>>
        /\ Step(w, [f EXCEPT !.pc = "selected",
                             !.seen =
                                [cands |-> subnet_find_ordered_by_most_full(
                                               subnets, ips, Head(f.need),
                                               f.sub),
                                 subnets |-> subnets,
                                 counts |-> [id \in DOMAIN subnets |->
                                               IpsInSubnet(ips, id)]]])
        /\ UNCHANGED <<subnets, ips, now, rng, calls, macvars, portvars,
                       utilvars>>

\* what the loop of select_subnet does for worker w, who holds a query result
Selecting(w) ==
    select_subnet_unlocked(wk[w].seen.cands, wk[w].seen.subnets,
                           wk[w].seen.counts, subnets, wk[w].ip,
                           wk[w].sub # {})

\* select_subnet: the loop over the rows of the query, and what
\* _choose_available_subnet and _try_allocate_ip_address do with the result
SelectUpdate(w) ==
    LET f == [wk[w] EXCEPT !.pc = "select", !.seen = <<>>]
        res == Selecting(w)
        subs == IF res.subnet = {} THEN f.subs
                ELSE Append(f.subs, CHOOSE x \in res.subnet : TRUE)
    IN  /\ wk[w].pc = "selected"
        /\ subnets' = res.subnets
        /\ IF res.raised # "none" THEN Step(w, Raise(f, res.raised))
           ELSE IF Tail(f.need) # <<>>
           THEN Step(w, [f EXCEPT !.need = Tail(f.need), !.subs = subs])
           ELSE Step(w, Chosen(f, subs))
        /\ UNCHANGED <<ips, now, rng, calls, macvars, portvars, utilvars>>

\* two v4 subnets of two addresses: the first with one address in use, a
\* policy of one address and its cursor on the last address or just past
\* it, the second empty
InitUnlocked ==
    /\ \E d \in {1, 2} :
          subnets = [id \in {1, 2} |->
                        IF id = 1
                        THEN [Subnet(1, 4, 8, 2, {8})
                                 EXCEPT !.next_auto_assign_ip = @ + d]
                        ELSE Subnet(2, 4, 10, 2, {})]
    /\ ips = {StoredRow(subnets, 1, subnets[1].first_ip, 0)}
    /\ now = 0
    /\ rng = 0
    /\ wk = [w \in Workers |-> IdleFrame]
    /\ calls = 0
    /\ held = {}
    /\ MacIdle
    /\ PortsIdle
    /\ UtilIdle

\* calls of allocate_ip_address whose select_subnet transactions overlap
SpecUnlocked ==
    InitUnlocked /\ [][\/ \E w \in Workers : AllocateStart(w)
                       \/ \E w \in Workers : ReallocateClaim(w)
                       \/ \E w \in Workers : SelectQuery(w)
                       \/ \E w \in Workers : SelectUpdate(w)
                       \/ \E w \in Workers : AllocateFromSubnet(w)]_vars

\* ------------------------------------------ three subnets, selection only
\* a network with two v4 subnets of different size and a v6 subnet, with
\* rows in use as earlier calls left them; the cursor of the first subnet at
\* first_ip or just after
InitOrder ==
    /\ \E d \in {0, 1} :
          subnets = [id \in {1, 2, 3} |->
                        IF id = 1
                        THEN [Subnet(1, 4, 8, 2, {8})
                                 EXCEPT !.next_auto_assign_ip = @ + d]
                        ELSE IF id = 2 THEN Subnet(2, 4, 10, 4, {})
                        ELSE Subnet(3, 6, 32, 2, {32})]
    /\ ips \in SUBSET {StoredRow(subnets, id, a, 0) :
                          id \in {1, 2, 3},
                          a \in {subnets[1].first_ip, subnets[1].last_ip,
                                 subnets[2].first_ip, subnets[2].first_ip + 1,
                                 subnets[2].first_ip + 2,
                                 subnets[3].first_ip, subnets[3].last_ip}}
    /\ \A r \in ips : r.address \in
                         subnets[r.subnet_id].first_ip
                           .. subnets[r.subnet_id].last_ip
    /\ now = 0
    /\ rng = 0
    /\ wk = [w \in Workers |-> IdleFrame]
    /\ calls = 0
    /\ held = {}
    /\ MacIdle
    /\ PortsIdle
    /\ UtilIdle

\* calls of allocate_ip_address on that network up to the selection of
\* their subnets: without an explicit address, for a v4 address of the
\* second subnet or for an address of the v6 subnet, with or without the
\* second subnet given
SpecOrder ==
    InitOrder /\ [][\/ \E w \in Workers, strategy \in {"ANY"},
                        ip \in {{}, {IPAddress(4, 11)}, {IPAddress(6, 33)}},
                        sub \in {{}, {2}} :
                        /\ calls < MaxCalls
                        /\ allocate_ip_address(w, strategy, ip, sub, 0,
                                               CHOOSE c \in Clients :
                                                  c.tenant = 1)
                    \/ \E w \in Workers : ReallocateClaim(w)
                    \/ \E w \in Workers : SelectSubnet(w)]_vars

\* ------------------------------------------- the reuse loops, with errors
\* attempt_to_reallocate_ip: the try block of one iteration raises (a
\* database error in transaction_create, in the claim or in the re-find);
\* `except Exception` logs it and the loop goes to its next iteration
ReallocateRaises(w) ==
    LET f == wk[w]
    IN  /\ f.pc \in {"realloc", "realloc_find"}
        /\ IF f.retry + 1 < ip_address_retry_max
           THEN Step(w, [f EXCEPT !.pc = "realloc", !.retry = f.retry + 1,
                                  !.txn = NULL])
           ELSE Step(w, AfterReuse(f))
        /\ UNCHANGED <<subnets, ips, now, rng, calls, macvars, portvars,
                        utilvars>>

\* allocate_mac_address, reuse loop: the try block of one iteration raises;
\* `except Exception` logs it and continues
MacReallocateRaises(w) ==
    LET f == mk[w]
    IN  /\ f.pc \in {"realloc", "realloc_find"}
        /\ IF f.retry + 1 < mac_address_retry_max
           THEN MacStep(w, [f EXCEPT !.pc = "realloc",
                                     !.retry = f.retry + 1, !.txn = NULL])
           ELSE MacStep(w, MacCreatePhase(f))
        /\ UNCHANGED <<ranges, macs, mcalls, mac_exc, now, ipvars,
                        portvars, utilvars>>

\* the reuse loops of allocate_ip_address and allocate_mac_address calls,
\* each kind on its store, with iterations that may raise
SpecRetry ==
    (InitReuse \/ InitMac)
        /\ [][\/ \E w \in Workers, ip \in ExplicitIps, ra \in ReuseAfters :
                    /\ NetworkSetUp
                    /\ calls < MaxCalls
                    /\ allocate_ip_address(w, "ANY", ip, {}, ra,
                                           CHOOSE c \in Clients :
                                              c.tenant = 1)
              \/ \E w \in Workers : NetworkSetUp /\ ReallocateClaim(w)
              \/ \E w \in Workers : NetworkSetUp /\ ReallocateFind(w)
              \/ \E w \in Workers : NetworkSetUp /\ ReallocateRaises(w)
              \/ \E w \in Workers : ~NetworkSetUp /\ MacAllocateStart(w)
              \/ \E w \in Workers : ~NetworkSetUp /\ MacReallocateClaim(w)
              \/ \E w \in Workers : ~NetworkSetUp /\ MacReallocateFind(w)
              \/ \E w \in Workers : ~NetworkSetUp /\ MacReallocateRaises(w)]_vars

\* ================================================================ claims
\* C1: in every reachable state of the store, under any interleaving of
\* allocate_ip_address, attempt_to_reallocate_ip and deallocate_ip_address
\* calls of several workers, no two IPAddress rows with deallocated = 0 have
\* the same (subnet_id, address).
C1_Uniqueness ==
    \A r1 \in ips : \A r2 \in ips :
        (/\ r1.deallocated = 0
         /\ r2.deallocated = 0
         /\ r1.subnet_id = r2.subnet_id
         /\ r1.address = r2.address) => r1 = r2

\* C1 witness: a worker is about to insert a v6 address that another call
\* has inserted, and that is allocated, since this worker looked for it
C1_Witness ==
    \E w \in Workers : \E r \in ips :
        /\ wk[w].pc = "v6_create"
        /\ r.deallocated = 0
        /\ r.subnet_id = Head(wk[w].subs).id
        /\ r.address = wk[w].cand

\* C3: in every step, for every subnet, next_auto_assign_ip does not decrease
\* while it is not -1, and once it is -1 it stays -1.
C3_CursorMonotonic ==
    [][\A id \in DOMAIN subnets :
         LET cur == subnets[id].next_auto_assign_ip
             new == subnets'[id].next_auto_assign_ip
         IN  /\ cur = FULL => new = FULL
             /\ cur # FULL => (new = FULL \/ new >= cur)]_vars

\* C3 witness: the v4 subnet was marked full after its cursor had advanced
\* and a call is about to select a subnet again
C3_Witness ==
    /\ subnets[1].next_auto_assign_ip = FULL
    /\ \E r \in ips : r.subnet_id = 1
    /\ \E w \in Workers : wk[w].pc = "select" /\ wk[w].need # <<>>

RowAddress(r, subs) ==
    IF subs[r.subnet_id].ip_version = 4 THEN ipv4(FromInt(r.address))
    ELSE ipv6(FromInt(r.address))

\* the rows a step of worker w on the create path leaves allocated
CreatedBy(w) ==
    IF wk[w].pc \in {"alloc", "v6_create"} /\ wk'[w] # wk[w]
    THEN {r \in ips' \ ips : r.deallocated = 0}
    ELSE {}

\* C5 as stated: no row that a step of the create path (_allocate_from_subnet
\* or _allocate_from_v6_subnet) leaves allocated has an address excluded by
\* its subnet's policy.
C5_CreateAvoidsPolicy ==
    [][\A w \in Workers : \A r \in CreatedBy(w) :
          ~InPolicy(RowAddress(r, subnets), subnets[r.subnet_id])]_vars

\* C5 amended: no row that a step of the create path leaves allocated for a
\* call without an explicit ip_address has an address excluded by its
\* subnet's policy.
C5_CreateAvoidsPolicyUnlessExplicit ==
    [][\A w \in Workers : \A r \in CreatedBy(w) :
          wk[w].ip = {} =>
              ~InPolicy(RowAddress(r, subnets), subnets[r.subnet_id])]_vars

\* C5 witness: the create path went past the excluded v4 address and created
\* the one after it, and created a generated v6 address, for calls without an
\* explicit address
C5_Witness ==
    /\ \E r \in ips : r.subnet_id = 1 /\ r.address = subnets[1].first_ip + 1
                      /\ r.deallocated = 0 /\ r.transaction_id = NULL
    /\ \E r \in ips : r.subnet_id = 2 /\ r.deallocated = 0
    /\ \A r \in ips : r.address # subnets[1].first_ip

\* C6: whenever allocate_ip_address has returned successfully under
\* BOTH_REQUIRED, the list of addresses holds at least one v4 and at least
\* one v6 address.
C6_BothRequired ==
    \A w \in Workers :
        (/\ wk[w].pc = "done"
         /\ wk[w].outcome = "ok"
         /\ wk[w].strategy = "BOTH_REQUIRED")
        => /\ InList(Versions(wk[w].new_addresses), 4)
           /\ InList(Versions(wk[w].new_addresses), 6)

\* C6 witness: a BOTH_REQUIRED call has returned, and another one has
\* failed for want of a v4 address
C6_Witness ==
    \E w, v \in Workers :
        /\ wk[w].pc = "done" /\ wk[w].outcome = "ok"
        /\ wk[w].strategy = "BOTH_REQUIRED"
        /\ wk[v].pc = "done" /\ wk[v].outcome = "IpAddressGenerationFailure"
        /\ wk[v].strategy = "BOTH_REQUIRED"

\* C8: no (subnet_id, address) is held by two different allocate_ip_address
\* calls at once: an address returned to one call is returned to another
\* only after it was deallocated.  The calls of the workers interleave at
\* every store operation and take no mutex.
C8_NoDoubleReturn ==
    \A h1 \in held : \A h2 \in held :
        (h1.subnet_id = h2.subnet_id /\ h1.address = h2.address)
            => h1.call = h2.call

\* C8 witness: an address returned to one call, deallocated, is held by a
\* later call while the other worker holds another address
C8_Witness ==
    \E h1 \in held : \E h2 \in held : \E r \in ips :
        /\ h1.call # h2.call
        /\ r.id = h1.id
        /\ r.transaction_id # NULL

\* the rows that carry the transaction id of worker w's claim
ClaimedBy(w) == {r \in ips : r.transaction_id = wk[w].txn}

\* the rows that a step of ip_address_reallocate_find by worker w hands back
FoundBy(w) ==
    IF /\ wk[w].pc = "realloc_find"
       /\ Len(wk'[w].new_addresses) = Len(wk[w].new_addresses) + 1
    THEN {r \in ips :
             r.id = wk'[w].new_addresses[Len(wk'[w].new_addresses)].id}
    ELSE {}

C2_ReuseAfter ==
    [][/\ \A r \in ips :
             (r.deallocated = 1
              /\ \E q \in ips' : q.id = r.id /\ q.deallocated = 0)
             => /\ r.deallocated_at # NULL
                /\ \E w \in Workers :
                      /\ wk'[w] # wk[w]
                      /\ now >= r.deallocated_at + wk[w].ra
       /\ \A r \in macs :
             (r.deallocated = 1
              /\ \E q \in macs' : q.address = r.address /\ q.deallocated = 0)
             => /\ r.deallocated_at # NULL
                /\ \E w \in Workers :
                      /\ mk'[w] # mk[w]
                      /\ now >= r.deallocated_at + mk[w].ra]_vars

\* C2 witness: a call with reuse_after = 1 has claimed, at time 1, a row
\* that was deallocated at time 0
C2_Witness ==
    \E w \in Workers : \E r \in ips :
        /\ wk[w].pc = "realloc_find"
        /\ wk[w].ra = 1
        /\ r.transaction_id = wk[w].txn
        /\ r.allocated_at = 1
        /\ now = 1

\* the rows that carry the transaction id of MAC worker w's claim
MacClaimedBy(w) == {r \in macs : r.transaction_id = mk[w].txn}

\* every call between its claim and its re-find has exactly one row that
\* carries its transaction id, and no row carries the ids of two calls
OneRowPerClaim ==
    /\ \A w \in Workers :
          wk[w].pc = "realloc_find" => Cardinality(ClaimedBy(w)) = 1
    /\ \A w \in Workers :
          mk[w].pc = "realloc_find" => Cardinality(MacClaimedBy(w)) = 1
    /\ \A w, v \in Workers :
          (w # v /\ wk[w].pc = "realloc_find" /\ wk[v].pc = "realloc_find")
              => wk[w].txn # wk[v].txn
    /\ \A w, v \in Workers :
          (w # v /\ mk[w].pc = "realloc_find" /\ mk[v].pc = "realloc_find")
              => mk[w].txn # mk[v].txn

\* a step of ip_address_reallocate by worker w updates at most one row,
\* reports success iff it updated one, and that row is then the only one
\* with the new transaction id
IpClaimStep(w) ==
    (wk[w].pc = "realloc" /\ wk'[w] # wk[w]) =>
        LET updated == ips \ ips'
        IN  /\ Cardinality(updated) <= 1
            /\ wk'[w].pc = "realloc_find" <=> Cardinality(updated) = 1
            /\ wk'[w].pc = "realloc_find" =>
                  /\ \A q \in ips : q.transaction_id # wk'[w].txn
                  /\ {q.id : q \in {x \in ips' :
                                       x.transaction_id = wk'[w].txn}}
                       = {r.id : r \in updated}

\* the same for a step of mac_address_reallocate
MacClaimStep(w) ==
    (mk[w].pc = "realloc" /\ mk'[w] # mk[w]) =>
        LET updated == macs \ macs'
        IN  /\ Cardinality(updated) <= 1
            /\ mk'[w].pc = "realloc_find" <=> Cardinality(updated) = 1
            /\ mk'[w].pc = "realloc_find" =>
                  /\ \A q \in macs : q.transaction_id # mk'[w].txn
                  /\ {q.address : q \in {x \in macs' :
                                            x.transaction_id = mk'[w].txn}}
                       = {r.address : r \in updated}

\* the re-find hands back only the row that carries the caller's
\* transaction id
FindStep(w) ==
    /\ FoundBy(w) \subseteq ClaimedBy(w)
    /\ (mk[w].pc = "realloc_find" /\ mk'[w].pc = "done"
        /\ mk'[w].outcome = "ok")
       => mk'[w].address \in {r.address : r \in MacClaimedBy(w)}

\* C9: ip_address_reallocate and mac_address_reallocate update at most one
\* matching row and return true iff exactly one row was updated; after a
\* successful claim stamped with a fresh transaction id T exactly one row
\* carries T, and the re-find by T hands back that row, never a row claimed
\* by another worker.
C9_ClaimOneRow ==
    /\ []OneRowPerClaim
    /\ [][\A w \in Workers :
             IpClaimStep(w) /\ MacClaimStep(w) /\ FindStep(w)]_vars

\* C9 witness: two calls have each claimed a row of the two deallocated
\* rows that matched both, and neither has re-found its row yet
C9_Witness ==
    \E w, v \in Workers :
        /\ w # v
        /\ wk[w].pc = "realloc_find" /\ wk[v].pc = "realloc_find"
        /\ wk[w].ip = {} /\ wk[v].ip = {}
        /\ \A r \in ips : r.transaction_id \in {wk[w].txn, wk[v].txn}

\* C10: on a network with a single empty v4 subnet of 8 addresses whose
\* policy excludes the first and the last address, with the cursor at or
\* just after first_ip, sequential ANY calls without deallocation return
\* first_ip + 1 .. first_ip + 6 in this order, one address per call, and
\* the seventh call fails with IpAddressGenerationFailure.
C10_SixThenFailure ==
    \A w \in Workers :
        wk[w].pc = "done" =>
            /\ wk[w].call \in 1 .. 6 =>
                  /\ wk[w].outcome = "ok"
                  /\ Len(wk[w].new_addresses) = 1
                  /\ wk[w].new_addresses[1].address
                       = subnets[1].first_ip + wk[w].call
                  /\ wk[w].call = calls =>
                        {r.address : r \in ips}
                          = {subnets[1].first_ip + k : k \in 1 .. calls}
            /\ wk[w].call = 7 =>
                  /\ wk[w].outcome = "IpAddressGenerationFailure"
                  /\ wk[w].new_addresses = <<>>

\* C10 witness: the seventh call has failed after six calls created the six
\* addresses between the excluded ones
C10_Witness ==
    \E w \in Workers :
        /\ wk[w].pc = "done" /\ wk[w].call = 7
        /\ wk[w].outcome = "IpAddressGenerationFailure"
        /\ {r.address : r \in ips}
             = {subnets[1].first_ip + k : k \in 1 .. 6}
        /\ \A r \in ips : r.deallocated = 0

\* a stored row that a reuse pass may hand back: inside the cidr of its
\* subnet, not excluded by the policy, the subnet not marked do_not_use
ValidRow(r) ==
    /\ ~subnets[r.subnet_id].do_not_use
    /\ ~InPolicy(RowAddress(r, subnets), subnets[r.subnet_id])
    /\ InCidr(RowAddress(r, subnets), subnets[r.subnet_id])

\* the valid v4 rows that the reuse pass of w's call can still hand back:
\* deallocated with reuse_after elapsed, or claimed by w and not yet
\* re-found
Reclaimable(w) ==
    {r \in ips :
        /\ r.version = 4
        /\ ValidRow(r)
        /\ \/ /\ r.deallocated = 1
              /\ r.deallocated_at # NULL
              /\ r.deallocated_at + wk[w].ra <= now
           \/ /\ wk[w].pc = "realloc_find"
              /\ r.transaction_id = wk[w].txn}

\* the reuse pass of w's call ends with the call returning one reclaimed
\* row, no subnet cursor moved and no row inserted
ReturnsReclaimed(w) ==
    /\ wk'[w].pc = "done" /\ wk'[w].outcome = "ok"
    /\ Len(wk'[w].new_addresses) = 1
    /\ \E r \in ips, q \in ips' :
          /\ r.id = wk'[w].new_addresses[1].id
          /\ q.id = r.id /\ q.address = r.address
          /\ q.deallocated = 0 /\ q.deallocated_at = NULL
          /\ q.allocated_at = now
          /\ q.used_by_tenant_id = wk[w].tenant
    /\ subnets' = subnets
    /\ {q.id : q \in ips'} \subseteq {r.id : r \in ips}

\* the reuse pass of w's call (ANY, no explicit address) ends
ReusePassEnds(w) ==
    /\ wk[w].pc \in {"realloc", "realloc_find"}
    /\ wk'[w].pc \notin {"realloc", "realloc_find"}
    /\ wk[w].strategy = "ANY" /\ wk[w].ip = {}

\* the rows that the claim of w's call can pick and that fail the checks
\* of the re-find, the one w has claimed included
Unusable(w) ==
    {r \in ips :
        /\ ~ValidRow(r)
        /\ \/ /\ r.deallocated = 1
              /\ r.deallocated_at # NULL
              /\ r.deallocated_at + wk[w].ra <= now
           \/ /\ wk[w].pc = "realloc_find"
              /\ r.transaction_id = wk[w].txn}

\* C11: when allocate_ip_address (ANY, no explicit address) is called while
\* the network holds a valid deallocated v4 address whose reuse_after has
\* elapsed, the reuse pass ends with the call returning one reclaimed row
\* (deallocated = 0, deallocated_at cleared, allocated_at fresh,
\* used_by_tenant_id the caller's), no subnet cursor moved and no row
\* inserted.
C11_ReusePrecedesCreate ==
    [][\A w \in Workers :
          (ReusePassEnds(w) /\ Reclaimable(w) # {}) => ReturnsReclaimed(w)]_vars

\* C11 as amended: the same, when fewer than ip_address_retry_max of the
\* deallocated rows with reuse_after elapsed fail the checks of the re-find
\* (outside the cidr, excluded by the policy); each such row the claim picks
\* uses up one iteration of the reuse loop.
C11_ReusePrecedesCreateWithinRetries ==
    [][\A w \in Workers :
          (/\ ReusePassEnds(w)
           /\ Reclaimable(w) # {}
           /\ Cardinality(Unusable(w)) + wk[w].retry < ip_address_retry_max)
          => ReturnsReclaimed(w)]_vars

\* C11 witness: a call of tenant 2 at time 1 has returned a stored row of
\* tenant 1 that was deallocated at time 0, after its first claim picked a
\* row that the re-find deleted
C11_Witness ==
    \E w \in Workers : \E q \in ips :
        /\ wk[w].pc = "done" /\ wk[w].outcome = "ok" /\ wk[w].call = 1
        /\ Len(wk[w].new_addresses) = 1
        /\ q.id = wk[w].new_addresses[1].id /\ q.id >= 100
        /\ q.deallocated = 0 /\ q.deallocated_at = NULL
        /\ q.allocated_at = 1 /\ q.used_by_tenant_id = 2
        /\ q.transaction_id = 2

\* the network has only v4 subnets
OnlyV4 == \A id \in DOMAIN subnets : subnets[id].ip_version = 4

\* C12: a call of allocate_ip_address that raises has published no
\* ip_block.address.create notification, under any strategy; BOTH_REQUIRED
\* on a network that has only v4 subnets ends with IpAddressGenerationFailure
\* and no notification.
C12_NoNotificationOnRaise ==
    \A w \in Workers :
        wk[w].pc = "done" =>
            /\ wk[w].outcome # "ok" => wk[w].notified = <<>>
            /\ (wk[w].strategy = "BOTH_REQUIRED" /\ OnlyV4) =>
                  /\ wk[w].outcome = "IpAddressGenerationFailure"
                  /\ wk[w].notified = <<>>

\* C12 witness: on the network without v6 a BOTH_REQUIRED call has raised,
\* and another call has returned and published its address
C12_Witness ==
    \E w, v \in Workers :
        /\ OnlyV4
        /\ wk[w].pc = "done" /\ wk[w].strategy = "BOTH_REQUIRED"
        /\ wk[w].outcome = "IpAddressGenerationFailure"
        /\ wk[v].pc = "done" /\ wk[v].outcome = "ok"
        /\ wk[v].notified # <<>>

\* address a lies outside the cidr of subnet s, as select_subnet tests it
\* for a v4 address, a v4-mapped address or any other v6 address
OutsideCidr(a, s) ==
    ~InCidr(IF s.ip_version = 4 /\ Convertible(a) THEN ipv4(a) ELSE a, s)

\* the candidates of the select_subnet call that worker w is about to make
Candidates(w) ==
    subnet_find_ordered_by_most_full(subnets, ips, Head(wk[w].need),
                                     wk[w].sub)

\* the candidates among them whose cidr holds the explicit address
RECURSIVE Holding(_, _)
Holding(cands, ip) ==
    IF cands = <<>> THEN <<>>
    ELSE IF \E a \in ip : OutsideCidr(a, subnets[Head(cands)])
    THEN Holding(Tail(cands), ip)
    ELSE <<Head(cands)>> \o Holding(Tail(cands), ip)

\* worker w makes its select_subnet call with an explicit address
SelectsExplicit(w) ==
    /\ wk[w].pc = "select" /\ wk[w].need # <<>> /\ wk[w].ip # {}
    /\ wk'[w] # wk[w]

\* C13: in select_subnet, when an explicit ip_address lies outside a
\* candidate subnet's cidr, the call fails with IPAddressNotInSubnet if the
\* caller supplied subnet_ids, and otherwise the candidate is skipped and the
\* next one examined, so that the call does what it does on the candidates
\* that hold the address; in both cases the candidate's row is unchanged.
C13_OutsideCidr ==
    [][\A w \in Workers :
          SelectsExplicit(w) =>
             LET f == wk[w]
                 cands == Candidates(w)
                 out == {cands[i] : i \in 1 .. Len(cands)}
                          \ {Holding(cands, f.ip)[i]
                             : i \in 1 .. Len(Holding(cands, f.ip))}
                 rest == select_subnet_loop(Holding(cands, f.ip), subnets,
                                            ips, f.ip, f.sub # {})
             IN  /\ \A id \in out : subnets'[id] = subnets[id]
                 /\ (f.sub # {} /\ cands # <<>> /\ Head(cands) \in out)
                    => /\ wk'[w].pc = "done"
                       /\ wk'[w].outcome = "IPAddressNotInSubnet"
                 /\ (f.sub = {} /\ out # {})
                    => /\ subnets' = rest.subnets
                       /\ wk'[w].outcome
                            \notin {"IPAddressNotInSubnet",
                                    "AddrConversionError"}
                       /\ (rest.subnet # {} /\ wk'[w].pc # "done")
                          => /\ wk'[w].subs # <<>>
                             /\ wk'[w].subs[Len(wk'[w].subs)]
                                  \in rest.subnet]_vars

\* ---------------------------------------------------------------- C14
\* the ranges a create-phase query of frame f can return from rngs, whatever
\* the rows
UsableRanges(rngs, f) ==
    mac_address_range_find_allocation_counts(rngs, {}, f.mac, f.forbidden)

\* range id holds at least (last_address - first_address + 1) rows
HoldsAll(id) ==
    MacsInRange(macs, id)
        >= ranges[id].last_address - ranges[id].first_address + 1

\* the call of frame f has failed with MacAddressGenerationFailure
MacFailed(f) == f.pc = "done" /\ f.outcome = "MacAddressGenerationFailure"

\* worker w's create phase looks for a range in this step
MacRangeStep(w) == mk[w].pc = "range" /\ mk'[w] # mk[w]

\* C14: when the range the create phase selects already holds at least
\* (last_address - first_address + 1) rows, the step sets that range's
\* next_auto_assign_mac to -1 and inserts no row, and the call goes on to
\* look for a range again or fails with MacAddressGenerationFailure; a
\* call that looks for a range when no usable range exists fails with
\* MacAddressGenerationFailure.
C14_FullRangeSetFull ==
    [][\A w \in Workers :
          MacRangeStep(w) =>
              LET f == mk[w]
                  found == mac_address_range_find_allocation_counts(
                               ranges, macs, f.mac, f.forbidden)
              IN  /\ (found # {} /\ \A id \in found : HoldsAll(id)) =>
                         /\ macs' = macs
                         /\ \E id \in found :
                               /\ ranges[id].next_auto_assign_mac # FULL
                               /\ ranges' =
                                    [ranges EXCEPT
                                        ![id].next_auto_assign_mac = FULL]
                         /\ \/ MacFailed(mk'[w])
                            \/ /\ mk'[w].pc = "range"
                               /\ mk'[w].call = f.call
                         /\ mk'[w].address = NULL
                  /\ UsableRanges(ranges, f) = {} =>
                         /\ MacFailed(mk'[w])
                         /\ macs' = macs
                         /\ ranges' = ranges]_vars

\* C14 witness: the only call made has failed with
\* MacAddressGenerationFailure, and the range of 2 addresses, which holds 2
\* rows, is marked full
C14_Witness ==
    /\ mcalls = 1
    /\ ranges[1].next_auto_assign_mac = FULL
    /\ HoldsAll(1)
    /\ \E w \in Workers : MacFailed(mk[w]) /\ ~mk[w].forbidden

\* ---------------------------------------------------------------- C15
\* C15: under any interleaving of allocate_mac_address and
\* deallocate_mac_address calls no two MacAddress rows have the same
\* address, and no address is held by two callers of allocate_mac_address
\* at once: an address returned to a second caller was deallocated after it
\* was returned to the first.
C15_MacUnique ==
    /\ \A r1, r2 \in macs : r1.address = r2.address => r1 = r2
    /\ \A h1, h2 \in mheld : h1.address = h2.address => h1 = h2

\* C15 witness: two calls in progress at once have both returned, one a
\* reclaimed row and one a created row, and both addresses are still held
C15_Witness ==
    /\ \A w \in Workers : mk[w].pc = "done" /\ mk[w].outcome = "ok"
    /\ Cardinality(mheld) = 2
    /\ \E r1, r2 \in macs :
          /\ r1.transaction_id # NULL /\ r2.transaction_id = NULL
          /\ r1.deallocated = 0 /\ r2.deallocated = 0
          /\ {r1.address, r2.address} = {h.address : h \in mheld}

\* ---------------------------------------------------------------- C16
\* what the caller of allocate_ip_address may observe when a call ends
TerminalErrors ==
    {"IpAddressGenerationFailure", "IpAddressInUse", "IPAddressNotInSubnet"}

\* C16: IPAddressRetryableFailure and IPAddressPolicyRetryableFailure raised
\* in the create path never reach the caller of allocate_ip_address: a call
\* that has ended has returned normally or raised IpAddressGenerationFailure,
\* IpAddressInUse or IPAddressNotInSubnet.
C16_RetryableCaught ==
    \A w \in Workers :
        wk[w].pc = "done" => wk[w].outcome \in {"ok"} \cup TerminalErrors

\* ---------------------------------------------------------------- C17
\* the loop counters of the calls in progress are within their limits
LoopsBounded ==
    /\ \A w \in Workers :
          /\ wk[w].retry < ip_address_retry_max
          /\ wk[w].tries <= v6_allocation_attempts
          /\ mk[w].retry < mac_address_retry_max

\* worker w is inside a call of allocate_ip_address
InIpCall(w) == wk[w].pc \notin {"idle", "done"}

\* worker w is inside a call of allocate_mac_address
InMacCall(w) == mk[w].pc \notin {"idle", "done"}

\* C17: every call of allocate_mac_address and of allocate_ip_address
\* terminates whatever the other workers do: the reuse and create loops run
\* at most mac_address_retry_max / ip_address_retry_max iterations and the
\* v6 candidate loop at most v6_allocation_attempts iterations, a call whose
\* v6 candidates are used up raises IpAddressGenerationFailure, and every
\* call in progress ends, with a result or an exception: as the number of
\* calls is bounded, from some point on no call is in progress.
C17_Terminates ==
    /\ []LoopsBounded
    /\ [][\A w \in Workers :
             /\ (wk[w].pc = "alloc" /\ wk[w].tries >= v6_allocation_attempts
                 /\ wk'[w] # wk[w])
                   => (wk'[w].pc = "done"
                       /\ wk'[w].outcome = "IpAddressGenerationFailure")
             /\ (InMacCall(w) /\ ~InMacCall(w)')
                   => (mk'[w].outcome = "ok" \/ MacFailed(mk'[w]))]_vars
    /\ <>[](\A w \in Workers : ~InIpCall(w) /\ ~InMacCall(w))

\* C17 witness: a call of allocate_ip_address has used up its v6 candidates
\* after the call of the other worker has ended
C17_Witness ==
    \E w \in Workers :
        /\ wk[w].pc = "alloc"
        /\ wk[w].tries = v6_allocation_attempts
        /\ \E v \in Workers \ {w} : wk[v].pc = "done"

\* ---------------------------------------------------------------- C18
\* worker w has drawn a candidate from its generate_v6 generator and is
\* about to insert it
HasCandidate(w) == wk[w].pc = "v6_create"

\* the arguments (mac, port_id, cidr) of worker w's generator
GeneratorArgs(w) == <<wk[w].mac, wk[w].port, Head(wk[w].subs).cidr_first>>

\* C18: two generate_v6 generators created with the same (mac, port_id,
\* cidr) yield the same sequence: whenever two workers hold the candidate
\* of the same position of generators with the same arguments, the two
\* candidates are equal.
C18_SameArgsSameSequence ==
    \A w1, w2 \in Workers :
        (/\ HasCandidate(w1) /\ HasCandidate(w2)
         /\ GeneratorArgs(w1) = GeneratorArgs(w2)
         /\ wk[w1].tries = wk[w2].tries)
            => wk[w1].cand = wk[w2].cand

\* ---------------------------------------------------------------- C19
\* the state of a random generator seeded from port_id after k draws
RECURSIVE Rfc3041Stream(_, _)
Rfc3041Stream(port_id, k) ==
    IF k = 0 THEN Seed(port_id)
    ELSE NextRandom(Rfc3041Stream(port_id, k - 1))

\* candidate number n (from 0) as the claim gives it: the RFC 2462 address
\* first when mac is present, then the values of the RFC 3041 stream seeded
\* from port_id, in order
ExpectedCandidate(mac, port_id, cidr_first, n) ==
    IF mac # NULL /\ n = 0 THEN XorMagic(cidr_first + eui64(mac))
    ELSE rfc3041_ip(Rfc3041Stream(port_id,
                                  IF mac # NULL THEN n ELSE n + 1),
                    cidr_first)

\* worker w's v6 candidate loop draws its next candidate in this step
DrawsCandidate(w) ==
    /\ wk[w].pc = "alloc" /\ wk[w].ip = {}
    /\ Head(wk[w].subs).ip_version = 6
    /\ wk'[w] # wk[w]

\* C19: generate_v6 yields the RFC 2462 address (network base + EUI-64 of
\* mac, XOR MAGIC) first when mac is present and after it the RFC 3041
\* stream seeded from port_id, in order; without a mac it yields that
\* stream from its first value.
C19_CandidateOrder ==
    [][\A w \in Workers :
          DrawsCandidate(w) =>
              generate_v6(wk[w], Head(wk[w].subs), rng)
                  = ExpectedCandidate(wk[w].mac, wk[w].port,
                                      Head(wk[w].subs).cidr_first,
                                      wk[w].tries)]_vars

\* ---------------------------------------------------------------- C20
\* the rows on the address list of port p
OnPort(p) == {r \in ips : r.id \in ports[p]}

\* row r is the address that the keyword ip_address names (netaddr compares
\* version and value; a stored address is read back as a v6 address); every
\* row when the keyword is absent
Named(r, ip) ==
    ip = {} \/ \E a \in ip : a.version = 6 /\ a.value = r.address

\* the number of ports row r is associated with
Associations(r) == Cardinality({q \in DOMAIN ports : r.id \in ports[q]})

\* C20: a call of deallocate_ips_by_port on port p deallocates, and
\* publishes a delete notification for, exactly the addresses of p (only
\* the one ip_address names when it is given) that are associated with
\* exactly one port; an address associated with more ports stays as it is;
\* every matching address is removed from p's address list, the others
\* stay on it, and no other port's list changes.
C20_DeallocateByPort ==
    [][\E p \in DOMAIN ports, ip \in IpAddressKwargs :
          LET matching == {r \in OnPort(p) : Named(r, ip)}
              single == {r \in matching : Associations(r) = 1}
          IN  /\ ips' = (ips \ single)
                          \cup {[r EXCEPT !.deallocated = 1,
                                          !.deallocated_at = now]
                                : r \in single}
              /\ \A r \in ips \ single : r \in ips'
              /\ deleted' = Published(deleted, {r.id : r \in single})
              /\ ports' = [q \in DOMAIN ports |->
                              IF q = p
                              THEN ports[q] \ {r.id : r \in matching}
                              ELSE ports[q]]]_vars

\* C20 witness: address 1 was deallocated and notified, address 2, which
\* is still on port 2, was taken off port 1 and is still allocated
C20_Witness ==
    /\ ports = (1 :> {} @@ 2 :> {2})
    /\ DOMAIN deleted = {1} /\ deleted[1] = 1
    /\ \E r \in ips : r.id = 1 /\ r.deallocated = 1
    /\ \E r \in ips : r.id = 2 /\ r.deallocated = 0

\* ---------------------------------------------------------------- C21
\* a deallocate_mac_address call has just raised NotFound
RaisesNotFound == mac_exc'.exc = "NotFound" /\ mac_exc' # mac_exc

\* the step changes one row as deallocate_mac_address does when it finds
\* it: the row is deleted if its range is do_not_use, and else kept with
\* deallocated = 1 and deallocated_at = now
DeallocatesOne ==
    \E r \in macs :
        /\ mac_exc' = NoMacExc
        /\ IF ranges[r.mac_address_range_id].do_not_use
           THEN macs' = macs \ {r}
           ELSE macs' = (macs \ {r})
                          \cup {[r EXCEPT !.deallocated = 1,
                                          !.deallocated_at = now]}

\* C21: deallocate_mac_address fails with NotFound and changes nothing when
\* no MacAddress row has the address; otherwise it deletes the row if the
\* row's range is do_not_use, and else keeps it with deallocated = 1 and
\* deallocated_at = now.
C21_DeallocateMac ==
    [][now' = now =>
          /\ RaisesNotFound =>
                /\ macs' = macs
                /\ ~\E r \in macs : r.address = mac_exc'.address
          /\ macs' # macs => DeallocatesOne]_vars

\* C21 as amended: the same, where the rows that count are those the
\* caller's context can see: all rows for an admin context, the rows of its
\* own tenant for any other.
C21_DeallocateVisibleMac ==
    [][now' = now =>
          /\ RaisesNotFound =>
                /\ macs' = macs
                /\ ~\E r \in macs :
                       /\ r.address = mac_exc'.address
                       /\ mac_exc'.is_admin
                            \/ r.tenant_id = mac_exc'.tenant_id
          /\ macs' # macs => DeallocatesOne]_vars

\* C21 witness: a call has raised NotFound for an address whose row belongs
\* to another tenant, after another call deallocated a row
C21_Witness ==
    /\ mac_exc.exc = "NotFound"
    /\ \E r \in macs : r.address = mac_exc.address
    /\ \E r \in macs : r.deallocated = 1 /\ r.deallocated_at = 1

\* ---------------------------------------------------------------- C22
\* filter sets without a tenant_id, on IPAddress and on MacAddress
UnscopedFilters ==
    {[NoFilter EXCEPT !.deallocated = d, !.reuse_after = ra, !.version = v]
       : d \in {NULL, 0, 1}, ra \in {NULL, 0}, v \in {{}, {4}}}

UnscopedMacFilters ==
    {[NoMacFilter EXCEPT !.deallocated = d, !.reuse_after = ra]
       : d \in {NULL, 0, 1}, ra \in {NULL, 0}}

\* the tenants that own a row
Owners ==
    {r.used_by_tenant_id : r \in ips} \cup {r.tenant_id : r \in macs}

C23_DeallocatedStamped ==
    \A r \in ips :
       /\ r.deallocated \in {0, 1}
       /\ r.deallocated = 1 => r.deallocated_at # NULL

\* C23 witness: a row deallocated by deallocate_ip_address after time 0
\* next to a row created or claimed after time 0 and still allocated
C23_Witness ==
    \E r, q \in ips :
       /\ r.deallocated = 1 /\ r.deallocated_at # NULL /\ r.deallocated_at > 0
       /\ q.deallocated = 0 /\ q.allocated_at # NULL /\ q.allocated_at > 0
       /\ q.deallocated_at = NULL

\* ---------------------------------------------------------------- C24
\* C24: no step of attempt_to_reallocate_ip claims a v6 row: the row that
\* the claim of worker w flips to deallocated = 0 and stamps with the
\* transaction id is a v4 row, under every strategy.
C24_NoV6Claim ==
    [][\A w \in Workers :
          (wk[w].pc = "realloc" /\ wk'[w].pc = "realloc_find") =>
              \A r \in ips' :
                 r.transaction_id = wk'[w].txn => r.version = 4]_vars

\* ---------------------------------------------------------------- C25
\* C25: for every list of addresses of version 4 or 6 and every
\* allocate_complete, QuarkIpamBOTH.is_strategy_satisfied returns a boolean
\* (it does not raise), and returns true iff the list holds both a v4 and a
\* v6 address, or allocate_complete is true and the list is not empty.
C25_BothSatisfied ==
    ret.done =>
        LET L == args.reallocated_ips
        IN  /\ ret.exc = "none"
            /\ ret.value
                 <=> \/ /\ \E i \in 1 .. Len(L) : L[i].version = 4
                        /\ \E i \in 1 .. Len(L) : L[i].version = 6
                     \/ args.allocate_complete /\ L # <<>>

\* ---------------------------------------------------------------- C27
\* C27: when allocate_ip_address has raised, none of the rows that the call
\* created or claimed (the addresses on its list) is in the allocated state
\* (deallocated = 0).
C27_FailedHoldsNothing ==
    \A w \in Workers :
       (wk[w].pc = "done" /\ wk[w].outcome # "ok") =>
           \A i \in 1 .. Len(wk[w].new_addresses) :
              \A r \in ips :
                 r.id = wk[w].new_addresses[i].id => r.deallocated # 0

\* ---------------------------------------------------------------- C28
\* C28: after the re-find step of attempt_to_reallocate_ip, every row that
\* carries the transaction id of the claim (the claim flipped it to
\* deallocated = 0) is the row handed back to the caller: a claimed row that
\* is not handed back, one of a do_not_use subnet included, is no longer in
\* the store.
C28_ClaimedReturnedOrDeleted ==
    [][\A w \in Workers :
          (wk[w].pc = "realloc_find" /\ wk'[w] # wk[w]) =>
              \A r \in ips' :
                 (r.transaction_id = wk[w].txn /\ r.deallocated = 0) =>
                     /\ Len(wk'[w].new_addresses)
                          = Len(wk[w].new_addresses) + 1
                     /\ wk'[w].new_addresses[Len(wk'[w].new_addresses)].id
                          = r.id]_vars

\* ---------------------------------------------------------------- C29
\* a select_subnet step of worker w without an explicit address, when
\* "room" means count + policy_size < cidr.size + slack: the subnet it
\* returns has room, and every candidate that the loop reached and that has
\* no room is marked full by the step and is not the one returned
SelectsWithRoom(w, slack) ==
    LET f == wk[w]
        cands == subnet_find_ordered_by_most_full(subnets, ips, Head(f.need),
                                                  f.sub)
        res == select_subnet(subnets, ips, f.ip, f.sub, Head(f.need))
        Load(id) == IpsInSubnet(ips, id) + subnets[id].policy_size
        reached == {i \in 1 .. Len(cands) :
                       \A s \in res.subnet :
                          \E j \in i .. Len(cands) : cands[j] = s.id}
    IN  /\ subnets' = res.subnets
        /\ \A s \in res.subnet : Load(s.id) < subnets[s.id].cidr_size + slack
        /\ \A i \in reached :
              Load(cands[i]) >= subnets[cands[i]].cidr_size + slack =>
                  /\ subnets'[cands[i]].next_auto_assign_ip = FULL
                  /\ \A s \in res.subnet : s.id # cands[i]

\* C29: select_subnet without an explicit address returns a subnet only if
\* its count of IPAddress rows plus its policy size is strictly less than
\* its CIDR size; a candidate with count + policy_size >= cidr.size is
\* marked full and not returned.
C29_RoomStrict ==
    [][\A w \in Workers :
          (wk[w].pc = "select" /\ wk'[w] # wk[w] /\ wk[w].ip = {}) =>
              SelectsWithRoom(w, 0)]_vars

\* C29 as the code has it: the same with count + policy_size <= cidr.size
\* for the subnet returned, and count + policy_size > cidr.size for the
\* candidates marked full.
C29_RoomUpToSize ==
    [][\A w \in Workers :
          (wk[w].pc = "select" /\ wk'[w] # wk[w] /\ wk[w].ip = {}) =>
              SelectsWithRoom(w, 1)]_vars

\* C29 witness: a call without an explicit address was handed the v6
\* subnet, whose rows and policy add up to exactly its size, after the
\* selection marked the v4 subnet, which holds more than that, full
C29_Witness ==
    \E w \in Workers :
       /\ wk[w].pc = "alloc" /\ wk[w].ip = {}
       /\ wk[w].subs # <<>> /\ Head(wk[w].subs).id = 2
       /\ IpsInSubnet(ips, 2) + subnets[2].policy_size = subnets[2].cidr_size
       /\ subnets[1].next_auto_assign_ip = FULL
       /\ IpsInSubnet(ips, 1) + subnets[1].policy_size > subnets[1].cidr_size

\* ---------------------------------------------------------------- C30
\* C30: when the conditional update of select_subnet (the cursor advance or
\* the mark-full) matches no row, and retries of ip_address_retry_max are
\* left, allocate_ip_address is back in its retry loop after the step, about
\* to select a subnet again in the next iteration; it has not failed.
C30_ZeroRowsRetries ==
    [][\A w \in Workers :
          (/\ wk[w].pc = "selected"
           /\ wk'[w] # wk[w]
           /\ Selecting(w).zero
           /\ wk[w].retry + 1 < ip_address_retry_max) =>
              /\ wk'[w].pc = "select"
              /\ wk'[w].retry = wk[w].retry + 1]_vars

\* ---------------------------------------------------------------- C31
\* C31: every allocated row (deallocated = 0) has deallocated_at = NULL, and
\* a claim step of attempt_to_reallocate_ip for an explicit ip_address
\* updates no row that is allocated: the row it flips was deallocated.
C31_ExplicitClaimsNoAllocated ==
    /\ [](\A r \in ips : r.deallocated = 0 => r.deallocated_at = NULL)
    /\ [][\A w \in Workers :
             (wk[w].pc = "realloc" /\ wk'[w] # wk[w] /\ wk[w].ip # {}) =>
                 \A r \in ips \ ips' : r.deallocated = 1]_vars

\* C31 witness: a call for an explicit address whose row is allocated has
\* finished its reuse pass with nothing claimed, the row as it was
C31_Witness ==
    \E w \in Workers : \E r \in ips :
       /\ wk[w].pc = "select" /\ wk[w].ip # {} /\ wk[w].new_addresses = <<>>
       /\ r.address \in {ipv6(a).value : a \in wk[w].ip}
       /\ r.deallocated = 0 /\ r.transaction_id = NULL

\* ---------------------------------------------------------------- C32
\* C32: when allocate_ip_address has returned successfully, it has published
\* exactly one ip_block.address.create notification for each address of
\* the returned list, also when the reuse pass alone satisfied the strategy.
C32_NotifiedOncePerAddress ==
    \A w \in Workers :
       (wk[w].pc = "done" /\ wk[w].outcome = "ok") =>
           \A i \in 1 .. Len(wk[w].new_addresses) :
              Cardinality({j \in 1 .. Len(wk[w].notified) :
                              wk[w].notified[j].id
                                = wk[w].new_addresses[i].id}) = 1

\* ---------------------------------------------------------------- C33
\* C33: the candidate that a worker holds from its generate_v6 generator is
\* the one of that position in the sequence the generator yields when it is
\* consumed alone, whatever other generators were consumed in between.
C33_IndependentOfOthers ==
    \A w \in Workers :
       HasCandidate(w) =>
           wk[w].cand = ExpectedCandidate(wk[w].mac, wk[w].port,
                                          Head(wk[w].subs).cidr_first,
                                          wk[w].tries)

\* ---------------------------------------------------------------- C34
\* C34: a call of allocate_ip_address under BOTH without an explicit
\* address that has obtained a v4 address ends with a successful return
\* whose list holds that address, whatever became of the v6 allocation.
C34_BothBestEffort ==
    \A w \in Workers :
       (/\ wk[w].pc = "done" /\ wk[w].strategy = "BOTH"
        /\ \E i \in 1 .. Len(wk[w].new_addresses) :
              /\ wk[w].new_addresses[i].version = 4
              /\ \E r \in ips : /\ r.id = wk[w].new_addresses[i].id
                                /\ r.deallocated = 0)
           => wk[w].outcome = "ok"

\* ---------------------------------------------------------------- C35
\* candidate c comes before candidate s in the order of the query: a lower
\* ip_version, or the same version and less residual capacity
Before(c, s) ==
    LET Residual(id) == (subnets[id].last_ip - subnets[id].first_ip)
                          - IpsInSubnet(ips, id)
    IN  \/ subnets[c].ip_version < subnets[s].ip_version
        \/ /\ subnets[c].ip_version = subnets[s].ip_version
           /\ Residual(c) < Residual(s)

\* a select_subnet step of worker w returns the first candidate, in that
\* order, that passes the containment check of the explicit address and the
\* capacity check, and has marked full every candidate before it that
\* failed the capacity check; it returns one whenever a candidate passes
SelectsFirstPassing(w) ==
    LET f == wk[w]
        res == select_subnet(subnets, ips, f.ip, f.sub, Head(f.need))
        cands == {id \in DOMAIN subnets :
                     /\ ~subnets[id].do_not_use
                     /\ subnets[id].next_auto_assign_ip # FULL
                     /\ Head(f.need) \in {0, subnets[id].ip_version}
                     /\ f.sub # {} => id \in f.sub}
        Contained(id) == \A a \in f.ip : ~OutsideCidr(a, subnets[id])
        Capacity(id) ==
            subnets[id].cidr_size >
                IpsInSubnet(ips, id)
                  + (IF f.ip = {} THEN subnets[id].policy_size ELSE 0) - 1
    IN  /\ subnets' = res.subnets
        /\ \A s \in res.subnet :
              /\ s.id \in cands /\ Contained(s.id) /\ Capacity(s.id)
              /\ \A c \in cands :
                    Before(c, s.id) =>
                        /\ ~(Contained(c) /\ Capacity(c))
                        /\ (Contained(c) /\ ~Capacity(c)) =>
                               subnets'[c].next_auto_assign_ip = FULL
        /\ (\E c \in cands : Contained(c) /\ Capacity(c)) => res.subnet # {}

\* C35: among the candidate subnets select_subnet examines v4 subnets
\* before v6 ones and within a version the one with less residual capacity
\* first, and returns the first candidate that passes the containment and
\* capacity checks; every candidate examined before it that failed the
\* capacity check is marked full.
C35_FirstPassingInOrder ==
    [][\A w \in Workers :
          (wk[w].pc = "select" /\ wk'[w] # wk[w]) =>
              SelectsFirstPassing(w)]_vars

\* ---------------------------------------------------------------- C36
\* worker w is inside the reuse loop of attempt_to_reallocate_ip
InReuse(f) == f.pc \in {"realloc", "realloc_find"}

\* the next iteration of a reuse loop, when one is left
Retried(f, g, max) ==
    IF f.retry + 1 < max
    THEN g.pc = "realloc" /\ g.retry = f.retry + 1 /\ g.call = f.call
    ELSE ~InReuse(g)

\* one step of the IP reuse loop of worker w
IpReuseStep(w) ==
    LET f == wk[w]
        g == wk'[w]
        none == ip_address_find(ips, ip_kwargs(f),
                                elevated(Context(f.tenant, FALSE))) = {}
    IN  /\ (ReallocateClaim(w) /\ none) =>
               ~InReuse(g) /\ ips' = ips
        /\ (ReallocateClaim(w) /\ ~none) =>
               /\ g.pc = "realloc_find"
               /\ Cardinality(ips' \ ips) = 1
               /\ \A r \in ips' \ ips :
                     /\ r.transaction_id = g.txn
                     /\ \A q \in ips : q.transaction_id # g.txn
        /\ (ReallocateFind(w) /\ g.new_addresses = f.new_addresses) =>
               Retried(f, g, ip_address_retry_max)
        /\ ReallocateRaises(w) => Retried(f, g, ip_address_retry_max)
        /\ (~InReuse(f) /\ InReuse(g)) => g.call # f.call
        /\ InReuse(f) => f.retry < ip_address_retry_max

\* one step of the MAC reuse loop of worker w
MacReuseStep(w) ==
    LET f == mk[w]
        g == mk'[w]
        none == mac_address_find(macs,
                    [NoMacFilter EXCEPT !.reuse_after = f.ra,
                                        !.deallocated = 1,
                                        !.address = f.mac],
                    elevated(Context(f.tenant, FALSE))) = {}
    IN  /\ (MacReallocateClaim(w) /\ none) =>
               ~InReuse(g) /\ macs' = macs
        /\ (MacReallocateClaim(w) /\ ~none) =>
               /\ g.pc = "realloc_find"
               /\ Cardinality(macs' \ macs) = 1
               /\ \A r \in macs' \ macs :
                     /\ r.transaction_id = g.txn
                     /\ \A q \in macs : q.transaction_id # g.txn
        /\ (MacReallocateFind(w) /\ g.outcome # "ok") =>
               Retried(f, g, mac_address_retry_max)
        /\ MacReallocateRaises(w) => Retried(f, g, mac_address_retry_max)
        /\ (~InReuse(f) /\ InReuse(g)) => g.call # f.call
        /\ InReuse(f) => f.retry < mac_address_retry_max

\* C36: in both reuse loops a claim that affects no row ends the reuse
\* phase at once, with no row modified and no further claim in that call;
\* a re-find that returns nothing or an exception leads to the next
\* iteration, whose claim carries a transaction id no row carries yet, until
\* the retry maximum is reached.
C36_ReuseLoopControl ==
    [][\A w \in Workers : IpReuseStep(w) /\ MacReuseStep(w)]_vars

\* a second iteration has claimed a row after the first one failed
C36_Witness ==
    \/ \E w \in Workers :
          /\ wk[w].pc = "realloc_find" /\ wk[w].retry = 1
          /\ \E r \in ips : r.transaction_id = wk[w].txn
    \/ \E w \in Workers :
          /\ mk[w].pc = "realloc_find" /\ mk[w].retry = 1
          /\ \E r \in macs : r.transaction_id = mk[w].txn

\* ---------------------------------------------------------------- C37
\* the insert of worker w's _allocate_from_subnet step meets a row with its
\* (subnet_id, address)
InsertConflicts(w) ==
    LET f == wk[w]
        subnet == Head(f.subs)
        next_ip == NextIp(f, subnet)
    IN  /\ ~(subnet.policy # {} /\ InPolicy(next_ip, subnet) /\ f.ip = {})
        /\ \E r \in ips : /\ r.subnet_id = subnet.id
                          /\ r.address = ipv6(next_ip).value

\* the retry loop of _try_allocate_ip_address has caught a retryable
\* failure: its next iteration, or the end of the loop
CaughtRetryable(f, g) ==
    /\ g.outcome # "IpAddressInUse"
    /\ g.new_addresses = f.new_addresses
    /\ IF f.retry + 1 < ip_address_retry_max
       THEN g.pc = "select" /\ g.retry = f.retry + 1
       ELSE g.pc = "done"

\* C37: when the insert of _allocate_from_subnet conflicts with a row of the
\* same (subnet_id, address), the call fails with IpAddressInUse if an
\* explicit address was requested and the step raises the retryable failure
\* that the retry loop catches otherwise; no row is added and the existing
\* row is unchanged.
C37_ConflictFails ==
    [][\A w \in Workers :
          (AllocateFromSubnet(w) /\ InsertConflicts(w)) =>
              /\ ips' = ips
              /\ IF wk[w].ip # {}
                 THEN wk'[w].pc = "done" /\ wk'[w].outcome = "IpAddressInUse"
                 ELSE CaughtRetryable(wk[w], wk'[w])]_vars

\* an explicit request has failed on a conflict with IpAddressInUse
C37_Witness ==
    \E w \in Workers :
        /\ wk[w].pc = "done" /\ wk[w].outcome = "IpAddressInUse"
        /\ ips # {}

\* ---------------------------------------------------------------- C38
\* the deallocated rows of candidate address a in subnet id that worker w's
\* call may reuse and sees: reuse_after has passed and the row is its
\* tenant's
VisibleDeallocated(w, id, a) ==
    {r \in ips : /\ r.subnet_id = id /\ r.address = a
                 /\ r.deallocated = 1
                 /\ r.deallocated_at # NULL
                 /\ r.deallocated_at <= now - wk[w].ra
                 /\ r.used_by_tenant_id = wk[w].tenant}

\* worker w's call holds row r in its list of addresses after the step
ReturnsRow(w, r) ==
    \E i \in 1 .. Len(wk'[w].new_addresses) :
        wk'[w].new_addresses[i] = Ref(r)

\* the find-then-claim step of worker w on a candidate that is within the
\* bound and not excluded by policy
V6FindStep(w) ==
    LET f == wk[w]
        subnet == Head(f.subs)
        a == generate_v6(f, subnet, rng)
        visible == VisibleDeallocated(w, subnet.id, a)
    IN  (/\ AllocateFromV6Subnet(w)
         /\ f.tries <= v6_allocation_attempts - 1
         /\ ~InPolicy(FromInt(a), subnet)) =>
            IF visible # {}
            THEN \E r \in visible :
                    \E c \in ips' :
                       /\ ips' = (ips \ {r}) \cup {c}
                       /\ c.id = r.id /\ c.address = r.address
                       /\ c.subnet_id = r.subnet_id
                       /\ c.deallocated = 0 /\ c.deallocated_at = NULL
                       /\ c.used_by_tenant_id = f.tenant
                       /\ ReturnsRow(w, c)
            ELSE /\ ips' = ips
                 /\ wk'[w].pc = "v6_create" /\ wk'[w].cand = a

\* the insert step of worker w
V6InsertStep(w) ==
    LET f == wk[w]
        subnet == Head(f.subs)
    IN  V6Create(w) =>
            IF \E r \in ips : r.subnet_id = subnet.id /\ r.address = f.cand
            THEN /\ ips' = ips
                 /\ wk'[w].pc = "alloc" /\ wk'[w].tries = f.tries + 1
                 /\ wk'[w].new_addresses = f.new_addresses
            ELSE \E c \in ips' \ ips :
                    /\ ips' = ips \cup {c}
                    /\ c.subnet_id = subnet.id /\ c.address = f.cand
                    /\ c.deallocated = 0
                    /\ ReturnsRow(w, c)

\* C38: for a v6 candidate, when a deallocated row of its (subnet_id,
\* address) with reuse_after satisfied is visible to the caller,
\* _allocate_from_v6_subnet flips that row to allocated (deallocated = 0,
\* deallocated_at NULL, used_by_tenant_id the caller) and returns it without
\* an insert; otherwise it inserts a row, and on a conflict of the unique key
\* it goes to the next candidate and leaves the conflicting row as it was.
C38_V6FindThenClaim ==
    [][\A w \in Workers : V6FindStep(w) /\ V6InsertStep(w)]_vars

\* a call under a dual-stack strategy has returned a v6 row that an earlier
\* call created
C38_Witness ==
    \E w \in Workers :
        /\ wk[w].pc = "done" /\ wk[w].outcome = "ok"
        /\ wk[w].strategy # "ANY"
        /\ \E i \in 1 .. Len(wk[w].new_addresses) :
              /\ wk[w].new_addresses[i].version = 6
              /\ wk[w].new_addresses[i].id # RowId(wk[w], 6)

\* ---------------------------------------------------------------- C39
\* worker w is in the candidate loop of _allocate_from_v6_subnet
InV6Loop(w) ==
    \/ wk[w].pc = "v6_create"
    \/ /\ wk[w].pc = "alloc" /\ wk[w].ip = {}
       /\ Head(wk[w].subs).ip_version = 6

\* a step of worker w's candidate loop: a candidate is examined only while
\* fewer than v6_allocation_attempts were, a candidate that is excluded by
\* policy or conflicts is followed by the next one of the generator, and
\* past the bound the call fails with the store as it was and with no v6
\* address of its own
V6LoopStep(w) ==
    LET f == wk[w]
        g == wk'[w]
        subnet == Head(f.subs)
        a == generate_v6(f, subnet, rng)
    IN  /\ wk[w].pc = "v6_create" => f.tries < v6_allocation_attempts
        /\ (AllocateFromV6Subnet(w) /\ f.tries >= v6_allocation_attempts) =>
               /\ g.pc = "done" /\ g.outcome = "IpAddressGenerationFailure"
               /\ ips' = ips
               /\ \A r \in ips : r.id # RowId(f, 6)
               /\ \A i \in 1 .. Len(f.new_addresses) :
                     f.new_addresses[i].version # 6
        /\ (/\ AllocateFromV6Subnet(w) /\ f.tries < v6_allocation_attempts
            /\ InPolicy(FromInt(a), subnet)) =>
               /\ g.pc = "alloc" /\ g.tries = f.tries + 1 /\ ips' = ips
        /\ (V6Create(w) /\ ips' = ips) =>
               /\ g.pc = "alloc" /\ g.tries = f.tries + 1

\* C39: without an explicit address _allocate_from_v6_subnet examines at
\* most v6_allocation_attempts candidates, in the order the generator yields
\* them; a candidate excluded by policy and a conflicting one count towards
\* the bound; once the bound is exceeded the call fails with
\* IpAddressGenerationFailure and has neither created nor claimed a row.
C39_V6AttemptsBounded ==
    /\ [](\A w \in Workers :
             InV6Loop(w) => wk[w].tries <= v6_allocation_attempts)
    /\ [][\A w \in Workers : V6LoopStep(w)]_vars

\* the last allowed candidate conflicts with a row: the next step of the
\* loop fails
C39_Witness ==
    \E w \in Workers :
        /\ wk[w].pc = "alloc" /\ wk[w].ip = {}
        /\ Head(wk[w].subs).ip_version = 6
        /\ wk[w].tries = v6_allocation_attempts

\* ---------------------------------------------------------------- C40
\* the cursor of a MAC range is an address of the range, or -1
MacCursorInRange(r) ==
    \/ r.next_auto_assign_mac = FULL
    \/ /\ r.first_address <= r.next_auto_assign_mac
       /\ r.next_auto_assign_mac <= r.last_address

\* a step in which worker w's create loop chooses its candidate in a range:
\* without an explicit MAC the candidate is the cursor, which then moves on
\* by one or becomes -1 after last_address; with an explicit MAC no cursor
\* changes
MacCandidateStep(w) ==
    LET f == mk[w]
        g == mk'[w]
    IN  (MacRange(w) /\ g.pc = "create") =>
            IF f.mac = NULL
            THEN LET old == ranges[g.range]
                 IN  /\ g.next_address = old.next_auto_assign_mac
                     /\ ranges'[g.range].next_auto_assign_mac =
                            IF g.next_address = old.last_address THEN FULL
                            ELSE old.next_auto_assign_mac + 1
                     /\ \A id \in DOMAIN ranges \ {g.range} :
                           ranges'[id] = ranges[id]
            ELSE g.next_address = f.mac /\ ranges' = ranges

\* C40: in every reachable state the next_auto_assign_mac of each MAC range
\* lies in [first_address, last_address] or is -1, and once -1 it never
\* changes; a create attempt without an explicit MAC takes the cursor as its
\* candidate and then increments it, or sets it to -1 when the candidate is
\* last_address, and a create attempt with an explicit MAC leaves the cursor
\* as it is.
C40_MacCursor ==
    /\ [](\A id \in DOMAIN ranges : MacCursorInRange(ranges[id]))
    /\ [][/\ \A id \in DOMAIN ranges :
                ranges[id].next_auto_assign_mac = FULL =>
                    ranges'[id].next_auto_assign_mac = FULL
          /\ \A w \in Workers : MacCandidateStep(w)]_vars

\* a call without an explicit MAC has taken last_address as its candidate
\* and the range is marked full
C40_Witness ==
    \E w \in Workers :
        /\ mk[w].pc = "create" /\ mk[w].mac = NULL
        /\ mk[w].next_address = ranges[mk[w].range].last_address
        /\ ranges[mk[w].range].next_auto_assign_mac = FULL

====
